---------------------------- MODULE Spec2Model ----------------------------
(***************************************************************************)
(* A model of the OpenGL back-end of gfx-rs: version-string parsing and    *)
(* ordering (gldevice/lib.rs), capability negotiation and the resource     *)
(* strategies of GlBackEnd (gldevice/lib.rs), and shader compilation and   *)
(* program reflection (gl_device/shade.rs).                                *)
(*                                                                         *)
(* A Rust string is a sequence of one-character strings.  Option<T> is a   *)
(* sequence of length 0 (None) or 1 (Some(x)).  Result<T, E> is a record   *)
(* [tag, val] with tag "Ok" or "Err".                                      *)
(***************************************************************************)
EXTENDS Integers, Sequences, FiniteSets, TLC

VARIABLES
    pc,            \* "uninit" | "ready" | "panicked" | "call" | "return"
    op,            \* the operation last invoked and its arguments
    ret,           \* what that operation returned
    info,          \* GlBackEnd.info
    caps,          \* GlBackEnd.caps
    make_texture,  \* GlBackEnd.make_texture (the name of the stored function)
    samplers,      \* GlBackEnd.samplers
    gl,            \* the driver's state that the back-end reads back
    glCalls,       \* the driver calls the last operation issued, in order
    hist           \* history: one entry per create_sampler call, in call order

vars == <<pc, op, ret, info, caps, make_texture, samplers, gl, glCalls, hist>>

backend == <<info, caps, make_texture, samplers>>

---------------------------------------------------------------------------
(* Bounds of the model. *)

\* longest input of Version::parse that is enumerated
MaxLen == 6
\* largest major / minor / revision number of an enumerated driver version
MaxMajor == 4
MaxMinor == 3
MaxRevision == 1
\* largest field value of the versions enumerated for the ordering
MaxOrdField == 1
\* most create_sampler calls of one run
MaxSamplers == 3
\* most active attributes / active uniforms of a linked program
MaxAttribs == 2
MaxUniforms == 2

---------------------------------------------------------------------------
(* Values. *)

None == <<>>

Some(x) == <<x>>

Ok(x) == [tag |-> "Ok", val |-> x]

Err(x) == [tag |-> "Err", val |-> x]

\* Version(major, minor, revision, vendor_info), the tuple struct
Version(major, minor, revision, vendor_info) ==
    [major |-> major, minor |-> minor, revision |-> revision,
     vendor_info |-> vendor_info]

\* the value of variables an operation or a specification does not use
Unset == [tag |-> "Unset"]

---------------------------------------------------------------------------
(* Strings. *)

Digits == {"0", "1", "2", "3", "4", "5", "6", "7", "8", "9"}

DigitVal(c) ==
    CASE c = "0" -> 0 [] c = "1" -> 1 [] c = "2" -> 2 [] c = "3" -> 3
      [] c = "4" -> 4 [] c = "5" -> 5 [] c = "6" -> 6 [] c = "7" -> 7
      [] c = "8" -> 8 [] c = "9" -> 9

\* the byte of a character, which is what &str comparison compares
CharCode(c) ==
    CASE c = " " -> 32 [] c = "." -> 46
      [] c \in Digits -> 48 + DigitVal(c)
      [] c = "M" -> 77 [] c = "W" -> 87
      [] c = "a" -> 97 [] c = "b" -> 98 [] c = "c" -> 99
      [] c = "h" -> 104 [] c = "u" -> 117 [] c = "v" -> 118

\* src.find(c): the 1-based index of the first c in s, 0 when there is none
RECURSIVE FindFrom(_, _, _)
FindFrom(s, c, i) ==
    IF i > Len(s) THEN 0
    ELSE IF s[i] = c THEN i
    ELSE FindFrom(s, c, i + 1)

Find(s, c) == FindFrom(s, c, 1)

\* s.split(c), as the sequence of the fields the iterator yields
RECURSIVE Split(_, _)
Split(s, c) ==
    LET i == Find(s, c) IN
    IF i = 0 THEN <<s>>
    ELSE <<SubSeq(s, 1, i - 1)>> \o Split(SubSeq(s, i + 1, Len(s)), c)

\* from_str::<uint>: a non-empty run of decimal digits, read in base 10
RECURSIVE DecimalValue(_)
DecimalValue(s) ==
    IF s = <<>> THEN 0
    ELSE 10 * DecimalValue(SubSeq(s, 1, Len(s) - 1)) + DigitVal(s[Len(s)])

from_str(s) ==
    IF s # <<>> /\ \A i \in 1..Len(s) : s[i] \in Digits
    THEN Some(DecimalValue(s))
    ELSE None

\* it.next().and_then(from_str) for the n-th call of next() on the split
NextField(fields, n) ==
    IF n <= Len(fields) THEN from_str(fields[n]) ELSE None

---------------------------------------------------------------------------
(* Version::parse *)

\* mutant: the revision is read from the last field instead of the third
Version_parse_last_field(src) ==
    LET i == Find(src, " ")
        version == IF i = 0 THEN src ELSE SubSeq(src, 1, i - 1)
        vendor_info == IF i = 0 THEN <<>> ELSE SubSeq(src, i + 1, Len(src))
        it == Split(version, ".")
        major == NextField(it, 1)
        minor == NextField(it, 2)
        revision == IF Len(it) >= 3 THEN NextField(it, Len(it)) ELSE None
    IN  IF major # None /\ minor # None
        THEN Ok(Version(major[1], minor[1], revision, vendor_info))
        ELSE Err(src)

\* mutant: only the major number is required
Version_parse_major_only(src) ==
    LET i == Find(src, " ")
        version == IF i = 0 THEN src ELSE SubSeq(src, 1, i - 1)
        vendor_info == IF i = 0 THEN <<>> ELSE SubSeq(src, i + 1, Len(src))
        it == Split(version, ".")
        major == NextField(it, 1)
        minor == NextField(it, 2)
        revision == NextField(it, 3)
    IN  IF major # None
        THEN Ok(Version(major[1], IF minor # None THEN minor[1] ELSE 0,
                        revision, vendor_info))
        ELSE Err(src)

\* mutant: without a space, a third field that is no number becomes the
\* vendor text, together with what follows it
Version_parse_vendor_after_dot(src) ==
    LET i == Find(src, " ")
        version == IF i = 0 THEN src ELSE SubSeq(src, 1, i - 1)
        it == Split(version, ".")
        major == NextField(it, 1)
        minor == NextField(it, 2)
        revision == NextField(it, 3)
        vendor_info ==
            IF i # 0 THEN SubSeq(src, i + 1, Len(src))
            ELSE IF Len(it) >= 3 /\ revision = None
                THEN SubSeq(src, Len(it[1]) + Len(it[2]) + 3, Len(src))
            ELSE <<>>
    IN  IF major # None /\ minor # None
        THEN Ok(Version(major[1], minor[1], revision, vendor_info))
        ELSE Err(src)

Version_parse(src) ==
    LET i == Find(src, " ")
        version == IF i = 0 THEN src ELSE SubSeq(src, 1, i - 1)
        vendor_info == IF i = 0 THEN <<>> ELSE SubSeq(src, i + 1, Len(src))
        it == Split(version, ".")
        major == NextField(it, 1)
        minor == NextField(it, 2)
        revision == NextField(it, 3)
    IN  IF major # None /\ minor # None
        THEN Ok(Version(major[1], minor[1], revision, vendor_info))
        ELSE Err(src)

---------------------------------------------------------------------------
(* The specification of Version::parse over every short input. *)

ParseAlphabet == {"1", "2", ".", " ", "h"}

RECURSIVE StringsUpTo(_, _)
StringsUpTo(alphabet, n) ==
    IF n = 0 THEN {<<>>}
    ELSE LET shorter == StringsUpTo(alphabet, n - 1) IN
         shorter \cup {Append(s, c) : s \in {t \in shorter : Len(t) = n - 1},
                                      c \in alphabet}

\* the inputs of tests::test_version_parse
TestInputs ==
    {<<"1">>,
     <<"1", ".">>,
     <<"1", " ", "h", "3", "l", "1", "o", ".", " ", "W", "0", "r", "l", "d">>,
     <<"1", ".", " ", "h", "3", "l", "1", "o", ".", " ", "W", "0", "r", "l", "d">>,
     <<"1", ".", "2", ".", "3">>,
     <<"1", ".", "2">>,
     <<"1", ".", "2", " ", "h", "3", "l", "1", "o", ".", " ", "W", "0", "r", "l", "d">>,
     <<"1", ".", "2", ".", "h", "3", "l", "1", "o", ".", " ", "W", "0", "r", "l", "d">>,
     <<"1", ".", "2", ".", " ", "h", "3", "l", "1", "o", ".", " ", "W", "0", "r", "l", "d">>,
     <<"1", ".", "2", ".", "3", ".", "h", "3", "l", "1", "o", ".", " ", "W", "0", "r", "l", "d">>,
     <<"1", ".", "2", ".", "3", " ", "h", "3", "l", "1", "o", ".", " ", "W", "0", "r", "l", "d">>}

InitParse ==
    /\ pc = "call"
    /\ op \in {[name |-> "Version::parse", src |-> s] :
                  s \in StringsUpTo(ParseAlphabet, MaxLen) \cup TestInputs}
    /\ ret = Unset
    /\ info = Unset
    /\ caps = Unset
    /\ make_texture = Unset
    /\ samplers = <<>>
    /\ gl = Unset
    /\ glCalls = <<>>
    /\ hist = <<>>

CallParse ==
    /\ pc = "call"
    /\ op.name = "Version::parse"
    /\ ret' = Version_parse(op.src)
    /\ pc' = "return"
    /\ UNCHANGED <<op, info, caps, make_texture, samplers, gl, glCalls, hist>>

NextParse == CallParse

SpecParse == InitParse /\ [][NextParse]_vars

---------------------------------------------------------------------------
(* The ordering and equality of Version: #[deriving(Eq, PartialEq, Ord,    *)
(* PartialOrd)] on the tuple struct compares the four fields in order.     *)

\* uint::cmp
uint_cmp(x, y) ==
    IF x < y THEN "Less" ELSE IF x > y THEN "Greater" ELSE "Equal"

\* Option<uint>::cmp: None is less than every Some
option_cmp(x, y) ==
    IF x = None /\ y = None THEN "Equal"
    ELSE IF x = None THEN "Less"
    ELSE IF y = None THEN "Greater"
    ELSE uint_cmp(x[1], y[1])

\* &str::cmp: byte by byte, a proper prefix is less
RECURSIVE str_cmp(_, _)
str_cmp(s, t) ==
    IF s = <<>> /\ t = <<>> THEN "Equal"
    ELSE IF s = <<>> THEN "Less"
    ELSE IF t = <<>> THEN "Greater"
    ELSE IF CharCode(Head(s)) # CharCode(Head(t))
         THEN uint_cmp(CharCode(Head(s)), CharCode(Head(t)))
    ELSE str_cmp(Tail(s), Tail(t))

\* mutant: (major, minor, revision.unwrap_or(0)) only, no vendor_info
Version_cmp_numeric(a, b) ==
    LET rev(v) == IF v.revision = None THEN 0 ELSE v.revision[1] IN
    IF uint_cmp(a.major, b.major) # "Equal" THEN uint_cmp(a.major, b.major)
    ELSE IF uint_cmp(a.minor, b.minor) # "Equal" THEN uint_cmp(a.minor, b.minor)
    ELSE uint_cmp(rev(a), rev(b))

\* the derived Ord::cmp of Version
Version_cmp(a, b) ==
    IF uint_cmp(a.major, b.major) # "Equal" THEN uint_cmp(a.major, b.major)
    ELSE IF uint_cmp(a.minor, b.minor) # "Equal" THEN uint_cmp(a.minor, b.minor)
    ELSE IF option_cmp(a.revision, b.revision) # "Equal"
         THEN option_cmp(a.revision, b.revision)
    ELSE str_cmp(a.vendor_info, b.vendor_info)

\* the derived PartialEq::eq of Version
Version_eq(a, b) ==
    /\ a.major = b.major
    /\ a.minor = b.minor
    /\ a.revision = b.revision
    /\ a.vendor_info = b.vendor_info

\* a >= b
Version_ge(a, b) == Version_cmp(a, b) # "Less"

---------------------------------------------------------------------------
(* The specification of the ordering over triples of versions. *)

OrdMajors == {3, 4}

OrdVendors == {<<>>, <<"M">>, <<"M", "a">>}

OrdVersions ==
    {Version(ma, mi, r, v) :
        ma \in OrdMajors, mi \in 0..MaxOrdField,
        r \in {None} \cup {Some(n) : n \in 0..MaxOrdField},
        v \in OrdVendors}

InitOrd ==
    /\ pc = "call"
    /\ op \in {[name |-> "Version::cmp", a |-> a, b |-> b, c |-> c] :
                  a \in OrdVersions, b \in OrdVersions, c \in OrdVersions}
    /\ ret = Unset
    /\ info = Unset
    /\ caps = Unset
    /\ make_texture = Unset
    /\ samplers = <<>>
    /\ gl = Unset
    /\ glCalls = <<>>
    /\ hist = <<>>

CallCmp ==
    /\ pc = "call"
    /\ op.name = "Version::cmp"
    /\ ret' = [ab |-> Version_cmp(op.a, op.b),
               ba |-> Version_cmp(op.b, op.a),
               bc |-> Version_cmp(op.b, op.c),
               ac |-> Version_cmp(op.a, op.c),
               eq_ab |-> Version_eq(op.a, op.b)]
    /\ pc' = "return"
    /\ UNCHANGED <<op, info, caps, make_texture, samplers, gl, glCalls, hist>>

NextOrd == CallCmp

SpecOrd == InitOrd /\ [][NextOrd]_vars

---------------------------------------------------------------------------
(* The driver, as far as shade.rs reads it back. *)

\* one driver call: the entry point, its input arguments, what it wrote back
Call(fn, arg, out) == [fn |-> fn, arg |-> arg, out |-> out]

\* object names the driver hands out
GLNames == {1, 2}

\* the terminator the driver writes after a name or a log
NUL == "NUL"

Min(x, y) == IF x <= y THEN x ELSE y

\* `n as uint` of a GLint: a negative value wraps to 2^N + n
AsUint(n) == IF n >= 0 THEN n ELSE <<"2^N +", n>>

\* a String grown to n NUL characters
Zeroed(n) == [k \in 1..n |-> NUL]

\* mutant: the driver writes the text and no terminator after it
WriteCStr_unterminated(buf, text, bufSize) ==
    LET n == Min(Len(text), bufSize - 1) IN
    [k \in 1..Len(buf) |-> IF k <= n THEN text[k] ELSE buf[k]]

\* the driver copies text into a buffer of bufSize characters: as much of it
\* as fits before the terminator, then the terminator; the rest is untouched
WriteCStr(buf, text, bufSize) ==
    LET n == Min(Len(text), bufSize - 1) IN
    [k \in 1..Len(buf) |->
        IF k <= n THEN text[k] ELSE IF k = n + 1 THEN NUL ELSE buf[k]]

\* the number of characters WriteCStr reports as written
WrittenLength(text, bufSize) == Min(Len(text), bufSize - 1)

\* the C string the driver reads at the start of a buffer
CStr(buf) ==
    LET z == Find(buf, NUL) IN
    IF z = 0 THEN buf ELSE SubSeq(buf, 1, z - 1)

\* ACTIVE_ATTRIBUTE_MAX_LENGTH / ACTIVE_UNIFORM_MAX_LENGTH: the longest name
\* and its terminator, 0 when the table is empty
RECURSIVE MaxNameLength(_)
MaxNameLength(table) ==
    IF table = <<>> THEN 0
    ELSE LET rest == MaxNameLength(Tail(table))
             mine == Len(Head(table).name) + 1
         IN  IF mine > rest THEN mine ELSE rest

\* GetAttribLocation / GetUniformLocation: -1 when no resource has the name
LocationOf(table, cname) ==
    IF \E i \in 1..Len(table) : table[i].name = cname
    THEN table[CHOOSE i \in 1..Len(table) : table[i].name = cname].location
    ELSE -1

---------------------------------------------------------------------------
(* shade::create_shader *)

\* mutant: the arms are tried from the oldest variant to the newest
SelectSource_oldest_first(data, lang) ==
    IF data.glsl_120 # None /\ Version_ge(lang, Version(1, 20, None, <<>>))
        THEN data.glsl_120
    ELSE IF data.glsl_130 # None /\ Version_ge(lang, Version(1, 30, None, <<>>))
        THEN data.glsl_130
    ELSE IF data.glsl_140 # None /\ Version_ge(lang, Version(1, 40, None, <<>>))
        THEN data.glsl_140
    ELSE IF data.glsl_150 # None /\ Version_ge(lang, Version(1, 50, None, <<>>))
        THEN data.glsl_150
    ELSE None

\* the first arm of the match whose pattern and guard hold; None for `_`
SelectSource(data, lang) ==
    IF data.glsl_150 # None /\ Version_ge(lang, Version(1, 50, None, <<>>))
        THEN data.glsl_150
    ELSE IF data.glsl_140 # None /\ Version_ge(lang, Version(1, 40, None, <<>>))
        THEN data.glsl_140
    ELSE IF data.glsl_130 # None /\ Version_ge(lang, Version(1, 30, None, <<>>))
        THEN data.glsl_130
    ELSE IF data.glsl_120 # None /\ Version_ge(lang, Version(1, 20, None, <<>>))
        THEN data.glsl_120
    ELSE None

\* the log text read back when INFO_LOG_LENGTH is length > 0
ReadInfoLog(length, text) ==
    SubSeq(WriteCStr(Zeroed(length), text, length), 1,
           WrittenLength(text, length))

\* mutant: a log is returned only when it has text
InfoLog_nonempty(length, text) ==
    IF length > 1 THEN Some(ReadInfoLog(length, text)) ELSE None

\* `let log = if length > 0 { ... Some(log) } else { None }`
InfoLog(length, text) ==
    IF length > 0 THEN Some(ReadInfoLog(length, text)) ELSE None

\* drv: what the driver answers: the name of the new shader object, the
\* compile status, the info log length and the info log text
shade_create_shader(stage, data, lang, drv) ==
    LET target == CASE stage = "Vertex" -> "VERTEX_SHADER"
                    [] stage = "Geometry" -> "GEOMETRY_SHADER"
                    [] stage = "Fragment" -> "FRAGMENT_SHADER"
        name == drv.name
        created == <<Call("CreateShader", <<target>>, <<name>>)>>
        source == SelectSource(data, lang)
    IN  IF source = None
        THEN [ret |-> <<Err("NoSupportedShaderProvided"),
                        Some("[gfx-rs] No supported GLSL shader provided!")>>,
              calls |-> created]
        ELSE
        LET compiled ==
                <<Call("ShaderSource", <<name, source[1]>>, <<>>),
                  Call("CompileShader", <<name>>, <<>>),
                  Call("GetShaderiv", <<name, "COMPILE_STATUS">>, <<drv.status>>),
                  Call("GetShaderiv", <<name, "INFO_LOG_LENGTH">>,
                       <<drv.log_length>>)>>
            length == drv.log_length
            fetched ==
                IF length > 0
                THEN <<Call("GetShaderInfoLog", <<name, length>>,
                            <<WrittenLength(drv.log, length)>>)>>
                ELSE <<>>
            log == InfoLog(length, drv.log)
        IN  [ret |-> <<IF drv.status # 0 THEN Ok(name)
                       ELSE Err("ShaderCompilationFailed"), log>>,
             calls |-> created \o compiled \o fetched]

---------------------------------------------------------------------------
(* The specification of shade::create_shader over source bundles and       *)
(* negotiated shading-language versions.                                   *)

Stages == {"Vertex", "Geometry", "Fragment"}

\* ShaderSource: each GLSL variant absent or its own source text
ShaderSources ==
    {[glsl_120 |-> s120, glsl_130 |-> s130, glsl_140 |-> s140,
      glsl_150 |-> s150] :
        s120 \in {None, Some("source 1.20")},
        s130 \in {None, Some("source 1.30")},
        s140 \in {None, Some("source 1.40")},
        s150 \in {None, Some("source 1.50")}}

\* shading-language versions as Version::parse returns them: GLSL "1.40"
\* is (1, 40), with or without a revision and vendor text
LangVersions ==
    {Version(ma, mi, r, v) :
        ma \in {1, 3}, mi \in {10, 20, 30, 40, 45, 50},
        r \in {None, Some(0)}, v \in {<<>>, <<"M">>}}

\* the driver's answers to one compilation
ShaderOutcomes ==
    {[name |-> n, status |-> st, log_length |-> l[1], log |-> l[2]] :
        n \in GLNames, st \in {0, 1},
        l \in {<<0, <<>>>>, <<1, <<>>>>, <<2, <<"W">>>>}}

InitShader ==
    /\ pc = "call"
    /\ op \in {[name |-> "shade::create_shader", stage |-> st, data |-> d,
                lang |-> l] :
                  st \in Stages, d \in ShaderSources, l \in LangVersions}
    /\ ret = Unset
    /\ info = Unset
    /\ caps = Unset
    /\ make_texture = Unset
    /\ samplers = <<>>
    /\ gl = Unset
    /\ glCalls = <<>>
    /\ hist = <<>>

CallCreateShader ==
    /\ pc = "call"
    /\ op.name = "shade::create_shader"
    /\ \E drv \in ShaderOutcomes :
        LET r == shade_create_shader(op.stage, op.data, op.lang, drv) IN
        /\ ret' = r.ret
        /\ glCalls' = r.calls
    /\ pc' = "return"
    /\ UNCHANGED <<op, info, caps, make_texture, samplers, gl, hist>>

NextShader == CallCreateShader

SpecShader == InitShader /\ [][NextShader]_vars

---------------------------------------------------------------------------
(* StorageType::new: the driver's type code as a storage description. *)

Var(base, container) == [tag |-> "Var", base |-> base, shape |-> container]

Sampler(base, sampler) == [tag |-> "Sampler", base |-> base, shape |-> sampler]

Unknown == [tag |-> "Unknown"]

Single == <<"Single">>

Vector(n) == <<"Vector", n>>

\* mutant: the two dimensions the other way round
Matrix_transposed(order, rows, cols) == <<"Matrix", order, cols, rows>>

Matrix(order, rows, cols) == <<"Matrix", order, rows, cols>>

Sampler1D(array, shadow) == <<"Sampler1D", array, shadow>>

Sampler2D(array, shadow, multisample, rect) ==
    <<"Sampler2D", array, shadow, multisample, rect>>

Sampler3D == <<"Sampler3D">>

SamplerCube(shadow) == <<"SamplerCube", shadow>>

StorageType_new(storage) ==
    CASE storage = "FLOAT"             -> Var("BaseF32", Single)
      [] storage = "FLOAT_VEC2"        -> Var("BaseF32", Vector(2))
      [] storage = "FLOAT_VEC3"        -> Var("BaseF32", Vector(3))
      [] storage = "FLOAT_VEC4"        -> Var("BaseF32", Vector(4))
      [] storage = "INT"               -> Var("BaseI32", Single)
      [] storage = "INT_VEC2"          -> Var("BaseI32", Vector(2))
      [] storage = "INT_VEC3"          -> Var("BaseI32", Vector(3))
      [] storage = "INT_VEC4"          -> Var("BaseI32", Vector(4))
      [] storage = "UNSIGNED_INT"      -> Var("BaseU32", Single)
      [] storage = "UNSIGNED_INT_VEC2" -> Var("BaseU32", Vector(2))
      [] storage = "UNSIGNED_INT_VEC3" -> Var("BaseU32", Vector(3))
      [] storage = "UNSIGNED_INT_VEC4" -> Var("BaseU32", Vector(4))
      [] storage = "BOOL"              -> Var("BaseBool", Single)
      [] storage = "BOOL_VEC2"         -> Var("BaseBool", Vector(2))
      [] storage = "BOOL_VEC3"         -> Var("BaseBool", Vector(3))
      [] storage = "BOOL_VEC4"         -> Var("BaseBool", Vector(4))
      [] storage = "FLOAT_MAT2"   -> Var("BaseF32", Matrix("ColumnMajor", 2, 2))
      [] storage = "FLOAT_MAT3"   -> Var("BaseF32", Matrix("ColumnMajor", 3, 3))
      [] storage = "FLOAT_MAT4"   -> Var("BaseF32", Matrix("ColumnMajor", 4, 4))
      [] storage = "FLOAT_MAT2x3" -> Var("BaseF32", Matrix("ColumnMajor", 2, 3))
      [] storage = "FLOAT_MAT2x4" -> Var("BaseF32", Matrix("ColumnMajor", 2, 4))
      [] storage = "FLOAT_MAT3x2" -> Var("BaseF32", Matrix("ColumnMajor", 3, 2))
      [] storage = "FLOAT_MAT3x4" -> Var("BaseF32", Matrix("ColumnMajor", 3, 4))
      [] storage = "FLOAT_MAT4x2" -> Var("BaseF32", Matrix("ColumnMajor", 4, 2))
      [] storage = "FLOAT_MAT4x3" -> Var("BaseF32", Matrix("ColumnMajor", 4, 3))
      [] storage = "SAMPLER_1D" ->
            Sampler("BaseF32", Sampler1D("NoArray", "NoShadow"))
      [] storage = "SAMPLER_1D_ARRAY" ->
            Sampler("BaseF32", Sampler1D("Array", "NoShadow"))
      [] storage = "SAMPLER_1D_SHADOW" ->
            Sampler("BaseF32", Sampler1D("NoArray", "Shadow"))
      [] storage = "SAMPLER_1D_ARRAY_SHADOW" ->
            Sampler("BaseF32", Sampler1D("Array", "Shadow"))
      [] storage = "SAMPLER_2D" ->
            Sampler("BaseF32",
                    Sampler2D("NoArray", "NoShadow", "NoMultiSample", "NoRect"))
      [] storage = "SAMPLER_2D_ARRAY" ->
            Sampler("BaseF32",
                    Sampler2D("Array", "NoShadow", "NoMultiSample", "NoRect"))
      [] storage = "SAMPLER_2D_SHADOW" ->
            Sampler("BaseF32",
                    Sampler2D("NoArray", "Shadow", "NoMultiSample", "NoRect"))
      [] storage = "SAMPLER_2D_MULTISAMPLE" ->
            Sampler("BaseF32",
                    Sampler2D("NoArray", "NoShadow", "MultiSample", "NoRect"))
      [] storage = "SAMPLER_2D_RECT" ->
            Sampler("BaseF32",
                    Sampler2D("NoArray", "NoShadow", "NoMultiSample", "Rect"))
      [] storage = "SAMPLER_2D_ARRAY_SHADOW" ->
            Sampler("BaseF32",
                    Sampler2D("Array", "Shadow", "NoMultiSample", "NoRect"))
      [] storage = "SAMPLER_2D_MULTISAMPLE_ARRAY" ->
            Sampler("BaseF32",
                    Sampler2D("Array", "NoShadow", "MultiSample", "NoRect"))
      [] storage = "SAMPLER_2D_RECT_SHADOW" ->
            Sampler("BaseF32",
                    Sampler2D("NoArray", "Shadow", "NoMultiSample", "Rect"))
      [] storage = "SAMPLER_3D" -> Sampler("BaseF32", Sampler3D)
      [] storage = "SAMPLER_CUBE" ->
            Sampler("BaseF32", SamplerCube("NoShadow"))
      [] storage = "SAMPLER_CUBE_SHADOW" ->
            Sampler("BaseF32", SamplerCube("Shadow"))
      [] OTHER -> Unknown

\* the type codes of the mapping table
ListedTypeCodes ==
    {"FLOAT", "FLOAT_VEC2", "FLOAT_VEC3", "FLOAT_VEC4",
     "INT", "INT_VEC2", "INT_VEC3", "INT_VEC4",
     "UNSIGNED_INT", "UNSIGNED_INT_VEC2", "UNSIGNED_INT_VEC3",
     "UNSIGNED_INT_VEC4",
     "BOOL", "BOOL_VEC2", "BOOL_VEC3", "BOOL_VEC4",
     "FLOAT_MAT2", "FLOAT_MAT3", "FLOAT_MAT4", "FLOAT_MAT2x3", "FLOAT_MAT2x4",
     "FLOAT_MAT3x2", "FLOAT_MAT3x4", "FLOAT_MAT4x2", "FLOAT_MAT4x3",
     "SAMPLER_1D", "SAMPLER_1D_ARRAY", "SAMPLER_1D_SHADOW",
     "SAMPLER_1D_ARRAY_SHADOW",
     "SAMPLER_2D", "SAMPLER_2D_ARRAY", "SAMPLER_2D_SHADOW",
     "SAMPLER_2D_MULTISAMPLE", "SAMPLER_2D_RECT", "SAMPLER_2D_ARRAY_SHADOW",
     "SAMPLER_2D_MULTISAMPLE_ARRAY", "SAMPLER_2D_RECT_SHADOW",
     "SAMPLER_3D", "SAMPLER_CUBE", "SAMPLER_CUBE_SHADOW"}

\* type codes of the driver that the table does not list: the double
\* types, the integer and unsigned samplers, and some others
UnlistedTypeCodes ==
    {"DOUBLE", "DOUBLE_VEC2", "DOUBLE_VEC3", "DOUBLE_VEC4",
     "DOUBLE_MAT2", "DOUBLE_MAT3", "DOUBLE_MAT4", "DOUBLE_MAT2x3",
     "INT_SAMPLER_1D", "INT_SAMPLER_2D", "INT_SAMPLER_3D", "INT_SAMPLER_CUBE",
     "INT_SAMPLER_2D_ARRAY",
     "UNSIGNED_INT_SAMPLER_1D", "UNSIGNED_INT_SAMPLER_2D",
     "UNSIGNED_INT_SAMPLER_3D", "UNSIGNED_INT_SAMPLER_CUBE",
     "SAMPLER_BUFFER", "SAMPLER_CUBE_MAP_ARRAY", "IMAGE_2D",
     "UNSIGNED_INT_ATOMIC_COUNTER", "NONE"}

---------------------------------------------------------------------------
(* The specification of StorageType::new over the driver's type codes. *)

InitStorage ==
    /\ pc = "call"
    /\ op \in {[name |-> "StorageType::new", storage |-> code] :
                code \in ListedTypeCodes \cup UnlistedTypeCodes}
    /\ ret = Unset
    /\ info = Unset
    /\ caps = Unset
    /\ make_texture = Unset
    /\ samplers = <<>>
    /\ gl = Unset
    /\ glCalls = <<>>
    /\ hist = <<>>

CallStorageTypeNew ==
    /\ pc = "call"
    /\ op.name = "StorageType::new"
    /\ ret' = StorageType_new(op.storage)
    /\ pc' = "return"
    /\ UNCHANGED <<op, info, caps, make_texture, samplers, gl, glCalls, hist>>

NextStorage == CallStorageTypeNew

SpecStorage == InitStorage /\ [][NextStorage]_vars

---------------------------------------------------------------------------
(* Program reflection: query_attributes, query_parameters, query_blocks.   *)
(* prog is the driver's record of a program object after LinkProgram:      *)
(* [name, link_status, log_length, log, attribs, uniforms, blocks], the    *)
(* three tables indexed by the driver's active index plus one.             *)

\* the closure of query_attributes for the indices from i on; buf is the
\* one name buffer, as the previous index left it
RECURSIVE AttribWalk(_, _, _, _)
AttribWalk(prog, max_len, i, buf) ==
    IF i > Len(prog.attribs) THEN [out |-> <<>>, calls |-> <<>>]
    ELSE
    LET e == prog.attribs[i]
        written == WriteCStr(buf, e.name, max_len)
        length == WrittenLength(e.name, max_len)
        size == e.size
        storage == e.type
        loc == LocationOf(prog.attribs, CStr(written))
        real_name == SubSeq(written, 1, length)
        st == StorageType_new(storage)
        base == IF st.tag = "Var" THEN st.base ELSE "BaseF32"
        container == IF st.tag = "Var" THEN st.shape ELSE Single
        rest == AttribWalk(prog, max_len, i + 1, written)
    IN  [out |-> <<[name |-> real_name, location |-> AsUint(loc),
                    count |-> AsUint(size), base_type |-> base,
                    container |-> container]>> \o rest.out,
         calls |-> <<Call("GetActiveAttrib", <<prog.name, i - 1, max_len>>,
                          <<length, size, storage>>),
                     Call("GetAttribLocation", <<prog.name, CStr(written)>>,
                          <<loc>>)>> \o rest.calls]

query_attributes(prog) ==
    LET num == Len(prog.attribs)
        max_len == MaxNameLength(prog.attribs)
        walk == AttribWalk(prog, max_len, 1, Zeroed(max_len))
    IN  [out |-> walk.out,
         calls |-> <<Call("GetProgramiv", <<prog.name, "ACTIVE_ATTRIBUTES">>,
                          <<num>>),
                     Call("GetProgramiv",
                          <<prog.name, "ACTIVE_ATTRIBUTE_MAX_LENGTH">>,
                          <<max_len>>)>> \o walk.calls]

\* mutant: the stage bits the other way round
BlockUsage_swapped(by_vertex, by_fragment) ==
    (IF by_vertex # 0 THEN 2 ELSE 0) + (IF by_fragment # 0 THEN 1 ELSE 0)

\* usage |= 1 << stage for each stage whose flag the driver reports as
\* non-zero, the vertex stage being stage 0 and the fragment stage stage 1
BlockUsage(by_vertex, by_fragment) ==
    (IF by_vertex # 0 THEN 1 ELSE 0) + (IF by_fragment # 0 THEN 2 ELSE 0)

\* the closure of query_blocks for the block indices from i on
RECURSIVE BlockWalk(_, _)
BlockWalk(prog, i) ==
    IF i > Len(prog.blocks) THEN [out |-> <<>>, calls |-> <<>>]
    ELSE
    LET b == prog.blocks[i]
        name_length == Len(b.name) + 1
        usage == BlockUsage(b.by_vertex, b.by_fragment)
        written == WriteCStr(Zeroed(name_length), b.name, name_length)
        actual_name_size == WrittenLength(b.name, name_length)
        name == SubSeq(written, 1, actual_name_size)
        size == b.data_size
        rest == BlockWalk(prog, i + 1)
    IN  [out |-> <<[name |-> name, size |-> AsUint(size),
                    usage |-> usage]>> \o rest.out,
         calls |->
            <<Call("GetActiveUniformBlockiv",
                   <<prog.name, i - 1, "UNIFORM_BLOCK_NAME_LENGTH">>,
                   <<name_length>>),
              Call("GetActiveUniformBlockiv",
                   <<prog.name, i - 1,
                     "UNIFORM_BLOCK_REFERENCED_BY_VERTEX_SHADER">>,
                   <<b.by_vertex>>),
              Call("GetActiveUniformBlockiv",
                   <<prog.name, i - 1,
                     "UNIFORM_BLOCK_REFERENCED_BY_FRAGMENT_SHADER">>,
                   <<b.by_fragment>>),
              Call("GetActiveUniformBlockName",
                   <<prog.name, i - 1, name_length>>, <<actual_name_size>>),
              Call("GetActiveUniformBlockiv",
                   <<prog.name, i - 1, "UNIFORM_BLOCK_DATA_SIZE">>,
                   <<size>>)>> \o rest.calls]

query_blocks(c, prog) ==
    IF c.uniform_block_supported
    THEN LET walk == BlockWalk(prog, 1) IN
         [out |-> walk.out,
          calls |-> <<Call("GetProgramiv",
                           <<prog.name, "ACTIVE_UNIFORM_BLOCKS">>,
                           <<Len(prog.blocks)>>)>> \o walk.calls]
    ELSE [out |-> <<>>, calls |-> <<>>]

\* mutant: the walk does not filter on the block index
UniformIsFree_any(block_indices, i) == TRUE

\* the filter |&(_, &b)| b < 0 of the walk
UniformIsFree(block_indices, i) == block_indices[i] < 0

\* mutant: an unrecognized uniform storage is pushed as a single float
PushUniform_default(st, v) ==
    IF st.tag = "Sampler" THEN [uniforms |-> <<>>, textures |-> <<v>>]
    ELSE [uniforms |-> <<v>>, textures |-> <<>>]

\* what the match on StorageType::new(storage) appends to each list; v is
\* the name, location and count read for the uniform
PushUniform(st, v) ==
    IF st.tag = "Var" THEN [uniforms |-> <<v>>, textures |-> <<>>]
    ELSE IF st.tag = "Sampler" THEN [uniforms |-> <<>>, textures |-> <<v>>]
    ELSE [uniforms |-> <<>>, textures |-> <<>>]

\* the loop of query_parameters for the indices from i on
RECURSIVE UniformWalk(_, _, _, _, _)
UniformWalk(prog, block_indices, max_len, i, buf) ==
    IF i > Len(prog.uniforms)
        THEN [uniforms |-> <<>>, textures |-> <<>>, calls |-> <<>>]
    ELSE IF ~UniformIsFree(block_indices, i)
        THEN UniformWalk(prog, block_indices, max_len, i + 1, buf)
    ELSE
    LET e == prog.uniforms[i]
        written == WriteCStr(buf, e.name, max_len)
        length == WrittenLength(e.name, max_len)
        size == e.size
        storage == e.type
        loc == LocationOf(prog.uniforms, CStr(written))
        real_name == SubSeq(written, 1, length)
        st == StorageType_new(storage)
        pushed ==
            PushUniform(st,
                IF st.tag = "Sampler"
                THEN [name |-> real_name, location |-> AsUint(loc),
                      base_type |-> st.base, sampler_type |-> st.shape]
                ELSE [name |-> real_name, location |-> AsUint(loc),
                      count |-> AsUint(size),
                      base_type |-> IF st.tag = "Var" THEN st.base
                                    ELSE "BaseF32",
                      container |-> IF st.tag = "Var" THEN st.shape
                                    ELSE Single])
        rest == UniformWalk(prog, block_indices, max_len, i + 1, written)
    IN  [uniforms |-> pushed.uniforms \o rest.uniforms,
         textures |-> pushed.textures \o rest.textures,
         calls |-> <<Call("GetActiveUniform", <<prog.name, i - 1, max_len>>,
                          <<length, size, storage>>),
                     Call("GetUniformLocation", <<prog.name, CStr(written)>>,
                          <<loc>>)>> \o rest.calls]

query_parameters(c, prog) ==
    LET total_num == Len(prog.uniforms)
        block_indices ==
            IF c.uniform_block_supported
            THEN [i \in 1..total_num |-> prog.uniforms[i].block]
            ELSE [i \in 1..total_num |-> -1]
        batch ==
            IF c.uniform_block_supported
            THEN <<Call("GetActiveUniformsiv",
                        <<prog.name, total_num, "UNIFORM_BLOCK_INDEX">>,
                        block_indices)>>
            ELSE <<>>
        max_len == MaxNameLength(prog.uniforms)
        walk == UniformWalk(prog, block_indices, max_len, 1, Zeroed(max_len))
    IN  [uniforms |-> walk.uniforms,
         textures |-> walk.textures,
         calls |-> <<Call("GetProgramiv", <<prog.name, "ACTIVE_UNIFORMS">>,
                          <<total_num>>)>>
                   \o batch
                   \o <<Call("GetProgramiv",
                             <<prog.name, "ACTIVE_UNIFORM_MAX_LENGTH">>,
                             <<max_len>>)>>
                   \o walk.calls]

---------------------------------------------------------------------------
(* shade::create_program *)

\* mutant: the reflection passes run whatever the link status is
LinkSucceeded_always(status) == TRUE

\* `if status != 0` of create_program
LinkSucceeded(status) == status # 0

\* prog is the program object the driver makes of the attached shaders
shade_create_program(c, shaders, prog) ==
    LET name == prog.name
        linked ==
            <<Call("CreateProgram", <<>>, <<name>>)>>
            \o [k \in 1..Len(shaders) |->
                    Call("AttachShader", <<name, shaders[k]>>, <<>>)]
            \o <<Call("LinkProgram", <<name>>, <<>>),
                 Call("GetProgramiv", <<name, "LINK_STATUS">>,
                      <<prog.link_status>>),
                 Call("GetProgramiv", <<name, "INFO_LOG_LENGTH">>,
                      <<prog.log_length>>)>>
        status == prog.link_status
        length == prog.log_length
        fetched ==
            IF length > 0
            THEN <<Call("GetProgramInfoLog", <<name, length>>,
                        <<WrittenLength(prog.log, length)>>)>>
            ELSE <<>>
        log == InfoLog(length, prog.log)
    IN  IF LinkSucceeded(status)
        THEN LET params == query_parameters(c, prog)
                 attributes == query_attributes(prog)
                 blocks == query_blocks(c, prog)
             IN  [ret |-> <<Ok(<<name,
                                 [attributes |-> attributes.out,
                                  uniforms |-> params.uniforms,
                                  blocks |-> blocks.out,
                                  textures |-> params.textures]>>), log>>,
                  calls |-> linked \o fetched \o params.calls
                            \o attributes.calls \o blocks.calls]
        ELSE [ret |-> <<Err(<<>>), log>>, calls |-> linked \o fetched]

---------------------------------------------------------------------------
(* The specification of shade::create_program over the programs a driver   *)
(* may report.                                                             *)

DigitChar(n) == <<"0", "1", "2", "3", "4", "5", "6", "7", "8", "9">>[n + 1]

\* the name of the resource at driver index i: names of one table differ,
\* and their lengths go 3, 2, 1, 3, ... so that a name follows a longer one
ResName(letter, i) ==
    LET n == 3 - (i % 3) IN
    [k \in 1..n |-> IF k = n THEN DigitChar(i % 10) ELSE letter]

\* type codes a driver reports: a variable, a float sampler, and one that
\* StorageType::new does not list
AttribCodes == {"FLOAT_VEC3", "SAMPLER_2D", "DOUBLE"}

UniformCodes == {"FLOAT_MAT2x3", "SAMPLER_CUBE_SHADOW", "INT_SAMPLER_2D"}

RECURSIVE SeqsUpTo(_, _)
SeqsUpTo(S, n) ==
    IF n = 0 THEN {<<>>}
    ELSE LET shorter == SeqsUpTo(S, n - 1) IN
         shorter \cup {Append(s, x) : s \in {t \in shorter : Len(t) = n - 1},
                                      x \in S}

AttribTable(types) ==
    [i \in 1..Len(types) |->
        [name |-> ResName("a", i - 1), type |-> types[i], size |-> i,
         location |-> 10 + i]]

\* entries[i] = <<type code, block index>>; a uniform of a block has no
\* location
UniformTable(entries) ==
    [i \in 1..Len(entries) |->
        [name |-> ResName("u", i - 1), type |-> entries[i][1], size |-> i,
         location |-> IF entries[i][2] >= 0 THEN -1 ELSE 20 + i,
         block |-> entries[i][2]]]

BlockTables ==
    {<<>>,
     <<[name |-> <<"B">>, data_size |-> 16, by_vertex |-> 1,
        by_fragment |-> 0]>>}

\* block tables of two blocks: names of different lengths, data sizes that
\* differ from the name lengths, and the stage flags in other combinations
\* (a driver may report any non-zero value for a set flag)
TwoBlockTables ==
    {<<[name |-> <<"B", "0">>, data_size |-> 16, by_vertex |-> 0,
        by_fragment |-> 1],
       [name |-> <<"C">>, data_size |-> 4, by_vertex |-> x,
        by_fragment |-> y]>> : x \in {0, 1, 2}, y \in {0, 1}}

InfoLogs == {<<0, <<>>>>, <<1, <<>>>>, <<2, <<"W">>>>}

\* a program that linked, with these tables
LinkedProgram(n, l, a, u, b) ==
    [name |-> n, link_status |-> 1, log_length |-> l[1], log |-> l[2],
     attribs |-> AttribTable(a), uniforms |-> UniformTable(u), blocks |-> b]

\* the uniform entries a driver with block table b may report: a free
\* uniform of any code, or a uniform of one of the blocks
UniformEntries(b) ==
    (UniformCodes \X {-1})
    \cup ({"FLOAT_MAT2x3", "INT_SAMPLER_2D"} \X (0..(Len(b) - 1)))

\* a program that failed to link has no active resources
FailedPrograms ==
    {[name |-> n, link_status |-> 0, log_length |-> l[1], log |-> l[2],
      attribs |-> <<>>, uniforms |-> <<>>, blocks |-> <<>>] :
        n \in GLNames, l \in InfoLogs}

\* a driver without uniform blocks reports none
HasNoBlocks(prog) ==
    /\ prog.blocks = <<>>
    /\ \A i \in 1..Len(prog.uniforms) : prog.uniforms[i].block < 0

InitProgram ==
    /\ pc = "call"
    /\ \/ \E p \in FailedPrograms : gl = [program |-> p]
       \/ \E b \in BlockTables, l \in InfoLogs,
             a \in SeqsUpTo(AttribCodes, MaxAttribs) :
            \E u \in SeqsUpTo(UniformEntries(b), MaxUniforms) :
                gl = [program |-> LinkedProgram(1, l, a, u, b)]
       \/ \E b \in TwoBlockTables :
            \E u \in SeqsUpTo(UniformEntries(b), 1) :
                gl = [program |-> LinkedProgram(1, <<0, <<>>>>, <<>>, u, b)]
    /\ op \in {[name |-> "shade::create_program",
                caps |-> [uniform_block_supported |-> ub],
                shaders |-> sh] :
                  ub \in {b \in BOOLEAN : b \/ HasNoBlocks(gl.program)},
                  sh \in {<<1>>, <<1, 2>>}}
    /\ ret = Unset
    /\ info = Unset
    /\ caps = Unset
    /\ make_texture = Unset
    /\ samplers = <<>>
    /\ glCalls = <<>>
    /\ hist = <<>>

CallCreateProgram ==
    /\ pc = "call"
    /\ op.name = "shade::create_program"
    /\ LET r == shade_create_program(op.caps, op.shaders, gl.program) IN
        /\ ret' = r.ret
        /\ glCalls' = r.calls
    /\ pc' = "return"
    /\ UNCHANGED <<op, info, caps, make_texture, samplers, gl, hist>>

NextProgram == CallCreateProgram

SpecProgram == InitProgram /\ [][NextProgram]_vars

---------------------------------------------------------------------------
(* Info::get and GlBackEnd::new *)

\* the extension list of the Info: above 3.2 one GetStringi per extension,
\* below it the split of the space-separated EXTENSIONS string, which has
\* one empty field when the driver lists nothing
InfoExtensions(version, driver_extensions) ==
    IF Version_ge(version, Version(3, 2, None, <<>>))
    THEN driver_extensions
    ELSE IF driver_extensions = {} THEN {""} ELSE driver_extensions

\* Info::get on a driver with these strings: Version::parse(..).unwrap()
\* fails the task on an Err
Info_get(version_string, shading_language_string, driver_extensions) ==
    LET version == Version_parse(version_string)
        shading_language == Version_parse(shading_language_string)
    IN  IF version.tag = "Err" \/ shading_language.tag = "Err"
        THEN [tag |-> "Panic"]
        ELSE [tag |-> "Info",
              version |-> version.val,
              shading_language |-> shading_language.val,
              extensions |-> InfoExtensions(version.val, driver_extensions)]

\* Info::is_extension_supported
is_extension_supported(i, s) == s \in i.extensions

\* mutant: a flag needs the version and the extension
Supported_both(i, major, minor, extension) ==
    /\ Version_ge(i.version, Version(major, minor, None, <<>>))
    /\ is_extension_supported(i, extension)

\* info.version >= Version(major, minor, None, "")
\*     || info.is_extension_supported(extension)
Supported(i, major, minor, extension) ==
    \/ Version_ge(i.version, Version(major, minor, None, <<>>))
    \/ is_extension_supported(i, extension)

\* the Capabilities of GlBackEnd::new; shader_model is what
\* shade::get_model() returned
Capabilities(i, shader_model) ==
    [shader_model |-> shader_model,
     uniform_block_supported |->
        Supported(i, 3, 1, "GL_ARB_uniform_buffer_object"),
     array_buffer_supported |->
        Supported(i, 3, 0, "GL_ARB_vertex_array_object"),
     immutable_storage_supported |->
        Supported(i, 4, 2, "GL_ARB_texture_storage"),
     sampler_objects_supported |->
        Supported(i, 3, 3, "GL_ARB_sampler_objects")]

\* mutant: the mutable path is stored whatever the capabilities
SelectMakeTexture_mutable(c) == "tex::make_without_storage"

\* the function stored in make_texture
SelectMakeTexture(c) ==
    IF c.immutable_storage_supported
    THEN "tex::make_with_storage"
    ELSE "tex::make_without_storage"

\* GlBackEnd::new on a driver that answers with these strings and this
\* extension list; shade::get_model() answers shader_model
New(version_strings, shading_language_strings, extension_sets, models) ==
    /\ pc = "uninit"
    /\ \E vs \in version_strings, sl \in shading_language_strings,
          exts \in extension_sets, shader_model \in models :
        LET i == Info_get(vs, sl, exts) IN
        /\ op' = [name |-> "new", version |-> vs, shading_language |-> sl,
                  extensions |-> exts]
        /\ IF i.tag = "Panic"
           THEN /\ pc' = "panicked"
                /\ UNCHANGED <<info, caps, make_texture, samplers>>
           ELSE /\ pc' = "ready"
                /\ info' = i
                /\ caps' = Capabilities(i, shader_model)
                /\ make_texture' =
                        SelectMakeTexture(Capabilities(i, shader_model))
                /\ samplers' = <<>>
    /\ ret' = Unset
    /\ glCalls' = <<>>
    /\ UNCHANGED <<gl, hist>>

InitBackEnd ==
    /\ pc = "uninit"
    /\ op = Unset
    /\ ret = Unset
    /\ info = Unset
    /\ caps = Unset
    /\ make_texture = Unset
    /\ samplers = <<>>
    /\ gl = [program |-> Unset]
    /\ glCalls = <<>>
    /\ hist = <<>>

---------------------------------------------------------------------------
(* The specification of GlBackEnd::new over driver versions and extension  *)
(* lists.                                                                  *)

RECURSIVE DecimalText(_)
DecimalText(n) ==
    IF n < 10 THEN <<DigitChar(n)>>
    ELSE Append(DecimalText(n \div 10), DigitChar(n % 10))

\* "major.minor[.revision][ vendor]"
VersionText(major, minor, revision, vendor) ==
    DecimalText(major) \o <<".">> \o DecimalText(minor)
    \o (IF revision = None THEN <<>>
        ELSE <<".">> \o DecimalText(revision[1]))
    \o (IF vendor = <<>> THEN <<>> ELSE <<" ">> \o vendor)

DriverVersionStrings ==
    {VersionText(ma, mi, r, v) :
        ma \in 2..MaxMajor, mi \in 0..MaxMinor,
        r \in {None} \cup {Some(n) : n \in 0..MaxRevision},
        v \in {<<>>, <<"M">>}}

CapabilityExtensions ==
    {"GL_ARB_uniform_buffer_object", "GL_ARB_vertex_array_object",
     "GL_ARB_texture_storage", "GL_ARB_sampler_objects"}

NewAnyDriver ==
    New(DriverVersionStrings \cup {<<"M">>},
        {<<"1", ".", "3", "0">>, <<"1", ".", "x">>},
        SUBSET CapabilityExtensions, {Version(1, 30, None, <<>>)})

NextCaps == NewAnyDriver

SpecCaps == InitBackEnd /\ [][NextCaps]_vars

---------------------------------------------------------------------------
(* The operations of device::ApiBackEnd for GlBackEnd.  A call into        *)
(* tex.rs, which is not among the sources, is recorded in glCalls as one   *)
(* entry under the name of the function called.                            *)

SamplerInfos == {"nearest", "linear"}

TextureInfos == {"Texture2D"}

\* an operation that returns r after the calls cs and leaves the back-end
\* as it is
Returns(o, r, cs) ==
    /\ op' = o
    /\ ret' = r
    /\ glCalls' = cs
    /\ UNCHANGED <<pc, info, caps, make_texture, samplers, gl, hist>>

create_buffer ==
    /\ pc = "ready"
    /\ \E name \in GLNames :
        Returns([name |-> "create_buffer"], name,
                <<Call("GenBuffers", <<1>>, <<name>>)>>)

\* mutant: a vertex array object is generated whatever the capabilities
create_array_buffer_unguarded ==
    /\ pc = "ready"
    /\ \E name \in GLNames :
        Returns([name |-> "create_array_buffer"], Ok(name),
                <<Call("GenVertexArrays", <<1>>, <<name>>)>>)

create_array_buffer ==
    /\ pc = "ready"
    /\ IF caps.array_buffer_supported
       THEN \E name \in GLNames :
                Returns([name |-> "create_array_buffer"], Ok(name),
                        <<Call("GenVertexArrays", <<1>>, <<name>>)>>)
       ELSE Returns([name |-> "create_array_buffer"], Err(<<>>), <<>>)

\* create_shader hands shade::create_shader's result on; the log is only
\* logged
create_shader(sources, outcomes) ==
    /\ pc = "ready"
    /\ \E stage \in Stages, code \in sources, drv \in outcomes :
        LET r == shade_create_shader(stage, code, caps.shader_model, drv) IN
        Returns([name |-> "create_shader", stage |-> stage, code |-> code],
                r.ret[1], r.calls)

\* create_program hands shade::create_program's result on; the driver then
\* holds the program it linked
create_program(programs) ==
    /\ pc = "ready"
    /\ \E shaders \in {<<1>>, <<1, 2>>}, prog \in programs :
        /\ caps.uniform_block_supported \/ HasNoBlocks(prog)
        /\ LET r == shade_create_program(caps, shaders, prog) IN
            /\ op' = [name |-> "create_program", shaders |-> shaders]
            /\ ret' = r.ret[1]
            /\ glCalls' = r.calls
        /\ gl' = [gl EXCEPT !.program = prog]
    /\ UNCHANGED <<pc, info, caps, make_texture, samplers, hist>>

create_frame_buffer ==
    /\ pc = "ready"
    /\ \E name \in GLNames :
        Returns([name |-> "create_frame_buffer"], name,
                <<Call("GenFramebuffers", <<1>>, <<name>>)>>)

\* (self.make_texture)(info): the stored function is called
create_texture ==
    /\ pc = "ready"
    /\ \E i \in TextureInfos, name \in GLNames :
        LET texture == [name |-> name, kind |-> "TEXTURE_2D"] IN
        Returns([name |-> "create_texture", info |-> i], texture,
                <<Call(make_texture, <<i>>, <<texture>>)>>)

\* mutant: the handle is the length of the list after the push
push_sampler_length(list, i) ==
    [samplers |-> Append(list, i), handle |-> Len(Append(list, i))]

\* mutant: the new entry goes to the front of the list
push_sampler_front(list, i) ==
    [samplers |-> <<i>> \o list, handle |-> Len(<<i>> \o list) - 1]

\* self.samplers.push(info); self.samplers.len() as Sampler - 1
push_sampler(list, i) ==
    [samplers |-> Append(list, i), handle |-> Len(Append(list, i)) - 1]

\* hist keeps, for each call answered from the list, the info passed and
\* the handle returned
create_sampler ==
    /\ pc = "ready"
    /\ \E i \in SamplerInfos :
        /\ op' = [name |-> "create_sampler", info |-> i]
        /\ IF caps.sampler_objects_supported
           THEN \E name \in GLNames :
                /\ ret' = name
                /\ glCalls' = <<Call("tex::make_sampler", <<i>>, <<name>>)>>
                /\ UNCHANGED <<samplers, hist>>
           ELSE LET pushed == push_sampler(samplers, i) IN
                /\ Len(hist) < MaxSamplers
                /\ samplers' = pushed.samplers
                /\ ret' = pushed.handle
                /\ glCalls' = <<>>
                /\ hist' = Append(hist, [info |-> i, handle |-> pushed.handle])
    /\ UNCHANGED <<pc, info, caps, make_texture, gl>>

BufferUsages == {"UsageStatic", "UsageDynamic", "UsageStream"}

Blobs == {"blob"}

\* the driver calls of update_buffer
update_buffer_calls(buffer, data, usage) ==
    <<Call("BindBuffer", <<"ARRAY_BUFFER", buffer>>, <<>>),
      Call("BufferData",
           <<"ARRAY_BUFFER", data,
             CASE usage = "UsageStatic" -> "STATIC_DRAW"
               [] usage = "UsageDynamic" -> "DYNAMIC_DRAW"
               [] usage = "UsageStream" -> "STREAM_DRAW">>, <<>>)>>

update_buffer ==
    /\ pc = "ready"
    /\ \E buffer \in GLNames, data \in Blobs, usage \in BufferUsages :
        Returns([name |-> "update_buffer", buffer |-> buffer,
                 usage |-> usage], <<>>,
                update_buffer_calls(buffer, data, usage))

---------------------------------------------------------------------------
(* rast.rs: the fixed-function state of a request as driver calls. *)

Gl(fn, arg) == Call(fn, arg, <<>>)

\* bind_primitive; p = [front_face, method, offset], method = <<"Point">>,
\* <<"Line", width>> or <<"Fill", cull>>, offset = <<"NoOffset">> or
\* <<"Offset", factor, units>>
bind_primitive(p) ==
    LET front == <<Gl("FrontFace",
                      <<IF p.front_face = "Clockwise" THEN "CW" ELSE "CCW">>)>>
        method ==
            CASE p.method[1] = "Point" -> <<>>
              [] p.method[1] = "Line" -> <<Gl("LineWidth", <<p.method[2]>>)>>
              [] p.method[1] = "Fill" ->
                    CASE p.method[2] = "CullNothing" ->
                            <<Gl("Disable", <<"CULL_FACE">>)>>
                      [] p.method[2] = "CullFront" ->
                            <<Gl("Enable", <<"CULL_FACE">>),
                              Gl("CullFace", <<"FRONT">>)>>
                      [] p.method[2] = "CullBack" ->
                            <<Gl("Enable", <<"CULL_FACE">>),
                              Gl("CullFace", <<"BACK">>)>>
        gl_draw == CASE p.method[1] = "Point" -> "POINT"
                     [] p.method[1] = "Line" -> "LINE"
                     [] p.method[1] = "Fill" -> "FILL"
        gl_offset == CASE p.method[1] = "Point" -> "POLYGON_OFFSET_POINT"
                       [] p.method[1] = "Line" -> "POLYGON_OFFSET_LINE"
                       [] p.method[1] = "Fill" -> "POLYGON_OFFSET_FILL"
        offset ==
            IF p.offset[1] = "Offset"
            THEN <<Gl("Enable", <<gl_offset>>),
                   Gl("PolygonOffset", <<p.offset[2], p.offset[3]>>)>>
            ELSE <<Gl("Disable", <<gl_offset>>)>>
    IN  front \o method
        \o <<Gl("PolygonMode", <<"FRONT_AND_BACK", gl_draw>>)>> \o offset

map_comparison(cmp) ==
    CASE cmp = "Never" -> "NEVER" [] cmp = "Less" -> "LESS"
      [] cmp = "LessEqual" -> "LEQUAL" [] cmp = "Equal" -> "EQUAL"
      [] cmp = "GreaterEqual" -> "GEQUAL" [] cmp = "Greater" -> "GREATER"
      [] cmp = "NotEqual" -> "NOTEQUAL" [] cmp = "Always" -> "ALWAYS"

\* bind_depth; depth is None or Some([fun, write])
bind_depth(depth) ==
    IF depth # None
    THEN <<Gl("Enable", <<"DEPTH_TEST">>),
           Gl("DepthFunc", <<map_comparison(depth[1].fun)>>),
           Gl("DepthMask", <<IF depth[1].write THEN "TRUE" ELSE "FALSE">>)>>
    ELSE <<Gl("Disable", <<"DEPTH_TEST">>)>>

map_operation(o) ==
    CASE o = "OpKeep" -> "KEEP" [] o = "OpZero" -> "ZERO"
      [] o = "OpReplace" -> "REPLACE" [] o = "OpIncrementClamp" -> "INCR"
      [] o = "OpIncrementWrap" -> "INCR_WRAP"
      [] o = "OpDecrementClamp" -> "DECR"
      [] o = "OpDecrementWrap" -> "DECR_WRAP" [] o = "OpInvert" -> "INVERT"

\* bind_side of bind_stencil
bind_side(face, side) ==
    <<Gl("StencilFuncSeparate",
         <<face, map_comparison(side.fun), side.value, side.mask_read>>),
      Gl("StencilOpSeparate",
         <<face, map_operation(side.op_fail),
           map_operation(side.op_depth_fail), map_operation(side.op_pass)>>)>>

\* bind_stencil; stencil is None or Some([front, back])
bind_stencil(stencil, cull) ==
    IF stencil # None
    THEN <<Gl("Enable", <<"STENCIL_TEST">>)>>
         \o (IF cull # "CullFront"
             THEN bind_side("FRONT", stencil[1].front) ELSE <<>>)
         \o (IF cull # "CullBack"
             THEN bind_side("BACK", stencil[1].back) ELSE <<>>)
    ELSE <<Gl("Disable", <<"STENCIL_TEST">>)>>

map_equation(eq) ==
    CASE eq = "FuncAdd" -> "FUNC_ADD" [] eq = "FuncSub" -> "FUNC_SUBTRACT"
      [] eq = "FuncRevSub" -> "FUNC_REVERSE_SUBTRACT"
      [] eq = "FuncMin" -> "MIN" [] eq = "FuncMax" -> "MAX"

\* map_factor; factor = <<"Normal" | "Inverse", blend value>>; the `_` arm
\* fails the task
map_factor(factor) ==
    CASE factor = <<"Normal", "Zero">> -> "ZERO"
      [] factor = <<"Inverse", "Zero">> -> "ONE"
      [] factor = <<"Normal", "SourceColor">> -> "SRC_COLOR"
      [] factor = <<"Inverse", "SourceColor">> -> "ONE_MINUS_SRC_COLOR"
      [] factor = <<"Normal", "SourceAlpha">> -> "SRC_ALPHA"
      [] factor = <<"Inverse", "SourceAlpha">> -> "ONE_MINUS_SRC_ALPHA"
      [] factor = <<"Normal", "DestColor">> -> "DST_COLOR"
      [] factor = <<"Inverse", "DestColor">> -> "ONE_MINUS_DST_COLOR"
      [] factor = <<"Normal", "DestAlpha">> -> "DST_ALPHA"
      [] factor = <<"Inverse", "DestAlpha">> -> "ONE_MINUS_DST_ALPHA"
      [] factor = <<"Normal", "ConstColor">> -> "CONSTANT_COLOR"
      [] factor = <<"Inverse", "ConstColor">> -> "ONE_MINUS_CONSTANT_COLOR"
      [] factor = <<"Normal", "ConstAlpha">> -> "CONSTANT_ALPHA"
      [] factor = <<"Inverse", "ConstAlpha">> -> "ONE_MINUS_CONSTANT_ALPHA"
      [] factor = <<"Normal", "SourceAlphaSaturated">> -> "SRC_ALPHA_SATURATE"
      [] OTHER -> "fail!"

\* bind_blend; blend is None or Some([color, alpha, value]), a channel is
\* [equation, source, destination]; [calls, failed]
bind_blend(blend) ==
    IF blend = None
    THEN [calls |-> <<Gl("Disable", <<"BLEND">>)>>, failed |-> FALSE]
    ELSE
    LET b == blend[1]
        factors == <<map_factor(b.color.source),
                     map_factor(b.color.destination),
                     map_factor(b.alpha.source),
                     map_factor(b.alpha.destination)>>
        before == <<Gl("Enable", <<"BLEND">>),
                    Gl("BlendEquationSeparate",
                       <<map_equation(b.color.equation),
                         map_equation(b.alpha.equation)>>)>>
    IN  IF \E k \in 1..4 : factors[k] = "fail!"
        THEN [calls |-> before, failed |-> TRUE]
        ELSE [calls |-> before \o <<Gl("BlendFuncSeparate", factors),
                                    Gl("BlendColor", b.value)>>,
              failed |-> FALSE]

\* shade::bind_uniform: the upload call of each kind of value
bind_uniform(loc, uniform) ==
    CASE uniform[1] = "ValueI32" -> <<Gl("Uniform1i", <<loc, uniform[2]>>)>>
      [] uniform[1] = "ValueF32" -> <<Gl("Uniform1f", <<loc, uniform[2]>>)>>
      [] uniform[1] = "ValueI32Vector2" ->
            <<Gl("Uniform2iv", <<loc, 1, uniform[2]>>)>>
      [] uniform[1] = "ValueI32Vector3" ->
            <<Gl("Uniform3iv", <<loc, 1, uniform[2]>>)>>
      [] uniform[1] = "ValueI32Vector4" ->
            <<Gl("Uniform4iv", <<loc, 1, uniform[2]>>)>>
      [] uniform[1] = "ValueF32Vector2" ->
            <<Gl("Uniform2fv", <<loc, 1, uniform[2]>>)>>
      [] uniform[1] = "ValueF32Vector3" ->
            <<Gl("Uniform3fv", <<loc, 1, uniform[2]>>)>>
      [] uniform[1] = "ValueF32Vector4" ->
            <<Gl("Uniform4fv", <<loc, 1, uniform[2]>>)>>
      [] uniform[1] = "ValueF32Matrix2" ->
            <<Gl("UniformMatrix2fv", <<loc, 1, "FALSE", uniform[2]>>)>>
      [] uniform[1] = "ValueF32Matrix3" ->
            <<Gl("UniformMatrix3fv", <<loc, 1, "FALSE", uniform[2]>>)>>
      [] uniform[1] = "ValueF32Matrix4" ->
            <<Gl("UniformMatrix4fv", <<loc, 1, "FALSE", uniform[2]>>)>>

---------------------------------------------------------------------------
(* GlBackEnd::process *)

\* the width of the u16 start index of DrawIndexed
U16Modulus == 65536

\* tex::bind_texture(loc, tex, sam, self) is given the back-end; tex.rs is
\* not among the sources, and by the design it only looks the sampler up in
\* the emulation list: the list it leaves and the call
tex_bind_texture(list, loc, tex, sam) ==
    [samplers |-> list,
     calls |-> <<Call("tex::bind_texture", <<loc, tex, sam>>, <<>>)>>]

\* self.check(): with debug assertions the error flag is read and a set
\* flag fails the task; without them nothing is done
check(outcome) ==
    CASE outcome = "release" -> [calls |-> <<>>, failed |-> FALSE]
      [] outcome = "debug, no error" ->
            [calls |-> <<Call("GetError", <<>>, <<"NO_ERROR">>)>>,
             failed |-> FALSE]
      [] outcome = "debug, error" ->
            [calls |-> <<Call("GetError", <<>>, <<"INVALID_OPERATION">>)>>,
             failed |-> TRUE]

CheckOutcomes == {"release", "debug, no error", "debug, error"}

\* what self.check() can meet in the arm of request r: only the draw arms
\* call it
ChecksOf(r) ==
    IF r[1] \in {"Draw", "DrawIndexed"} THEN CheckOutcomes ELSE {"release"}

\* the Clear arm; data = [color, depth, stencil], each an Option
process_clear(data) ==
    LET color == IF data.color # None
                 THEN <<Gl("ClearColor", data.color[1])>> ELSE <<>>
        depth == IF data.depth # None
                 THEN <<Gl("DepthMask", <<"TRUE">>),
                        Gl("ClearDepth", <<data.depth[1]>>)>>
                 ELSE <<>>
        stencil == IF data.stencil # None
                   THEN <<Gl("StencilMask", <<-1>>),
                          Gl("ClearStencil", <<data.stencil[1]>>)>>
                   ELSE <<>>
        flags == (IF data.color # None THEN {"COLOR_BUFFER_BIT"} ELSE {})
                 \cup (IF data.depth # None THEN {"DEPTH_BUFFER_BIT"} ELSE {})
                 \cup (IF data.stencil # None THEN {"STENCIL_BUFFER_BIT"}
                       ELSE {})
    IN  color \o depth \o stencil \o <<Gl("Clear", <<flags>>)>>

\* the BindAttribute arm; el_type = <<"Int", subtype, size, sign>>,
\* <<"Float", subtype, size>> or another kind of element
process_bind_attribute(slot, buffer, count, el_type, stride, offset) ==
    LET gl_type ==
            CASE el_type[1] = "Int" /\ el_type[3] = "U8"
                    /\ el_type[4] = "Unsigned" -> "UNSIGNED_BYTE"
              [] el_type[1] = "Int" /\ el_type[3] = "U8"
                    /\ el_type[4] = "Signed" -> "BYTE"
              [] el_type[1] = "Int" /\ el_type[3] = "U16"
                    /\ el_type[4] = "Unsigned" -> "UNSIGNED_SHORT"
              [] el_type[1] = "Int" /\ el_type[3] = "U16"
                    /\ el_type[4] = "Signed" -> "SHORT"
              [] el_type[1] = "Int" /\ el_type[3] = "U32"
                    /\ el_type[4] = "Unsigned" -> "UNSIGNED_INT"
              [] el_type[1] = "Int" /\ el_type[3] = "U32"
                    /\ el_type[4] = "Signed" -> "INT"
              [] el_type[1] = "Float" /\ el_type[3] = "F16" -> "HALF_FLOAT"
              [] el_type[1] = "Float" /\ el_type[3] = "F32" -> "FLOAT"
              [] el_type[1] = "Float" /\ el_type[3] = "F64" -> "DOUBLE"
              [] OTHER -> "unsupported"
        pointer ==
            CASE el_type[1] = "Int" /\ el_type[2] = "IntRaw" ->
                    <<Gl("VertexAttribIPointer",
                         <<slot, count, gl_type, stride, offset>>)>>
              [] el_type[1] = "Int" /\ el_type[2] = "IntNormalized" ->
                    <<Gl("VertexAttribPointer",
                         <<slot, count, gl_type, "TRUE", stride, offset>>)>>
              [] el_type[1] = "Int" /\ el_type[2] = "IntAsFloat" ->
                    <<Gl("VertexAttribPointer",
                         <<slot, count, gl_type, "FALSE", stride, offset>>)>>
              [] el_type[1] = "Float" /\ el_type[2] = "FloatDefault" ->
                    <<Gl("VertexAttribPointer",
                         <<slot, count, gl_type, "FALSE", stride, offset>>)>>
              [] el_type[1] = "Float" /\ el_type[2] = "FloatPrecision" ->
                    <<Gl("VertexAttribLPointer",
                         <<slot, count, gl_type, stride, offset>>)>>
              [] OTHER -> <<>>
    IN  IF gl_type = "unsupported" THEN <<>>
        ELSE <<Gl("BindBuffer", <<"ARRAY_BUFFER", buffer>>)>> \o pointer
             \o <<Gl("EnableVertexAttribArray", <<slot>>)>>

\* the BindTarget arm
process_bind_target(target, plane) ==
    LET attachment ==
            CASE target[1] = "TargetColor" -> <<"COLOR_ATTACHMENT0 +", target[2]>>
              [] target[1] = "TargetDepth" -> "DEPTH_ATTACHMENT"
              [] target[1] = "TargetStencil" -> "STENCIL_ATTACHMENT"
              [] target[1] = "TargetDepthStencil" -> "DEPTH_STENCIL_ATTACHMENT"
    IN  CASE plane[1] = "PlaneEmpty" ->
                <<Gl("FramebufferRenderbuffer",
                     <<"DRAW_FRAMEBUFFER", attachment, "RENDERBUFFER", 0>>)>>
          [] plane[1] = "PlaneSurface" ->
                <<Gl("FramebufferRenderbuffer",
                     <<"DRAW_FRAMEBUFFER", attachment, "RENDERBUFFER",
                       plane[2]>>)>>
          [] plane[1] = "PlaneTexture" ->
                <<Gl("FramebufferTexture",
                     <<"DRAW_FRAMEBUFFER", attachment, plane[2].name,
                       plane[3]>>)>>
          [] plane[1] = "PlaneTextureLayer" ->
                <<Gl("FramebufferTextureLayer",
                     <<"DRAW_FRAMEBUFFER", attachment, plane[2].name,
                       plane[3], plane[4]>>)>>

\* the match of process on the request r = <<kind, arguments...>>, for a
\* back-end with capabilities c and emulation list `list`; outcome is what
\* self.check() meets: [calls, failed, samplers]
process_request(c, list, r, outcome) ==
    LET kind == r[1]
        plain(cs) == [calls |-> cs, failed |-> FALSE, samplers |-> list]
    IN  CASE kind = "Clear" -> plain(process_clear(r[2]))
          [] kind = "BindProgram" -> plain(<<Gl("UseProgram", <<r[2]>>)>>)
          [] kind = "BindArrayBuffer" ->
                plain(IF c.array_buffer_supported
                      THEN <<Gl("BindVertexArray", <<r[2]>>)>> ELSE <<>>)
          [] kind = "BindAttribute" ->
                plain(process_bind_attribute(r[2], r[3], r[4], r[5], r[6],
                                             r[7]))
          [] kind = "BindIndex" ->
                plain(<<Gl("BindBuffer", <<"ELEMENT_ARRAY_BUFFER", r[2]>>)>>)
          [] kind = "BindFrameBuffer" ->
                plain(<<Gl("BindFramebuffer", <<"DRAW_FRAMEBUFFER", r[2]>>)>>)
          [] kind = "BindTarget" -> plain(process_bind_target(r[2], r[3]))
          [] kind = "BindUniformBlock" ->
                plain(<<Gl("UniformBlockBinding", <<r[2], r[3], r[4]>>),
                        Gl("BindBufferBase",
                           <<"UNIFORM_BUFFER", r[4], r[5]>>)>>)
          [] kind = "BindUniform" -> plain(bind_uniform(r[2], r[3]))
          [] kind = "BindTexture" ->
                LET t == tex_bind_texture(list, r[2], r[3], r[4]) IN
                [calls |-> t.calls, failed |-> FALSE,
                 samplers |-> t.samplers]
          [] kind = "SetPrimitiveState" -> plain(bind_primitive(r[2]))
          [] kind = "SetDepthStencilState" ->
                plain(bind_stencil(r[3], r[4]) \o bind_depth(r[2]))
          [] kind = "SetBlendState" ->
                [calls |-> bind_blend(r[2]).calls,
                 failed |-> bind_blend(r[2]).failed, samplers |-> list]
          [] kind = "UpdateBuffer" ->
                plain(update_buffer_calls(r[2], r[3], "UsageDynamic"))
          [] kind = "UpdateTexture" ->
                plain(<<Call("tex::update_texture", <<r[2], r[3], r[4]>>,
                             <<>>)>>)
          [] kind = "Draw" ->
                [calls |-> <<Gl("DrawArrays", <<"TRIANGLES", r[2], r[3]>>)>>
                           \o check(outcome).calls,
                 failed |-> check(outcome).failed, samplers |-> list]
          [] kind = "DrawIndexed" ->
                LET offset == (r[2] * 2) % U16Modulus IN
                [calls |-> <<Gl("DrawElements",
                                <<"TRIANGLES", r[3], "UNSIGNED_SHORT",
                                  offset>>)>>
                           \o check(outcome).calls,
                 failed |-> check(outcome).failed, samplers |-> list]

\* the argument of the last call to fn among the calls, old when there is
\* none
LastArg(calls, fn, old) ==
    LET s == SelectSeq(calls, LAMBDA c : c.fn = fn) IN
    IF s = <<>> THEN old ELSE s[Len(s)].arg[1]

\* the driver's write masks after the calls of request r, where the
\* specification follows them: depth_mask and stencil_mask are what the
\* last DepthMask and StencilMask calls set, and depth_write is the write
\* flag of the depth state that SetDepthStencilState gave last
Driver(g, r, calls) ==
    IF "depth_mask" \notin DOMAIN g THEN g
    ELSE [g EXCEPT
            !.depth_mask = LastArg(calls, "DepthMask", @),
            !.stencil_mask = LastArg(calls, "StencilMask", @),
            !.depth_write =
                IF r[1] = "SetDepthStencilState" /\ r[2] # None
                THEN r[2][1].write ELSE @]

\* process(request): the calls of the request's arm; a failed task leaves
\* the back-end where it was
process(requests) ==
    /\ pc = "ready"
    /\ \E r \in requests : \E outcome \in ChecksOf(r) :
        LET p == process_request(caps, samplers, r, outcome) IN
        /\ op' = [name |-> "process", request |-> r]
        /\ ret' = <<>>
        /\ glCalls' = p.calls
        /\ samplers' = p.samplers
        /\ gl' = Driver(gl, r, p.calls)
        /\ pc' = IF p.failed THEN "panicked" ELSE pc
    /\ UNCHANGED <<info, caps, make_texture, hist>>

---------------------------------------------------------------------------
(* The specification of a back-end in use: it is constructed on one of a   *)
(* few drivers and then serves any sequence of operations.                 *)

BackEndVersionStrings ==
    {VersionText(2, 1, None, <<>>), VersionText(3, 3, Some(0), <<"M">>),
     VersionText(4, 2, None, <<>>), <<"M">>}

BackEndExtensionSets ==
    {{}, {"GL_ARB_sampler_objects"}, {"GL_ARB_texture_storage"}}

BackEndShaderSources ==
    {[glsl_120 |-> None, glsl_130 |-> Some("source 1.30"),
      glsl_140 |-> None, glsl_150 |-> None],
     [glsl_120 |-> None, glsl_130 |-> None,
      glsl_140 |-> None, glsl_150 |-> Some("source 1.50")]}

BackEndShaderOutcomes ==
    {[name |-> 1, status |-> 0, log_length |-> 2, log |-> <<"W">>],
     [name |-> 1, status |-> 1, log_length |-> 0, log |-> <<>>]}

\* a program that failed to link and one with free resources
BackEndPrograms ==
    {[name |-> 1, link_status |-> 0, log_length |-> 2, log |-> <<"W">>,
      attribs |-> <<>>, uniforms |-> <<>>, blocks |-> <<>>],
     [name |-> 1, link_status |-> 1, log_length |-> 0, log |-> <<>>,
      attribs |-> AttribTable(<<"FLOAT_VEC3">>),
      uniforms |-> UniformTable(<<<<"SAMPLER_CUBE_SHADOW", -1>>>>),
      blocks |-> <<>>]}

\* the sampler handles a caller holds: the ones create_sampler returned
\* from the list, or a sampler object of the driver
HeldSamplers ==
    IF caps.sampler_objects_supported THEN GLNames
    ELSE {hist[k].handle : k \in 1..Len(hist)}

Texture2D == [name |-> 1, kind |-> "TEXTURE_2D"]

Side == [fun |-> "Always", value |-> 0, mask_read |-> 1, mask_write |-> 1,
         op_fail |-> "OpKeep", op_depth_fail |-> "OpKeep",
         op_pass |-> "OpReplace"]

Channel(source, destination) ==
    [equation |-> "FuncAdd", source |-> source, destination |-> destination]

\* one request or more of every kind
Requests ==
    {<<"Clear", [color |-> Some(<<0, 0, 0, 1>>), depth |-> Some(1),
                 stencil |-> None]>>,
     <<"Clear", [color |-> None, depth |-> None, stencil |-> Some(0)]>>}
    \cup {<<"BindProgram", 1>>, <<"BindArrayBuffer", 1>>, <<"BindIndex", 1>>,
          <<"BindFrameBuffer", 0>>}
    \cup {<<"BindAttribute", 0, 1, 3, t, 12, 0>> :
            t \in {<<"Int", "IntNormalized", "U16", "Signed">>,
                   <<"Float", "FloatDefault", "F32">>,
                   <<"Special">>}}
    \cup {<<"BindTarget", <<"TargetColor", 0>>, <<"PlaneSurface", 1>>>>,
          <<"BindTarget", <<"TargetDepthStencil">>,
            <<"PlaneTextureLayer", Texture2D, 0, 1>>>>}
    \cup {<<"BindUniformBlock", 1, 0, 0, 1>>,
          <<"BindUniform", 1, <<"ValueF32Matrix4", "m">>>>}
    \cup {<<"BindTexture", 0, Texture2D, Some(s)>> : s \in HeldSamplers}
    \cup {<<"BindTexture", 0, Texture2D, None>>}
    \cup {<<"SetPrimitiveState",
            [front_face |-> "Clockwise", method |-> <<"Fill", "CullBack">>,
             offset |-> <<"Offset", 1, 1>>]>>,
          <<"SetDepthStencilState",
            Some([fun |-> "LessEqual", write |-> TRUE]),
            Some([front |-> Side, back |-> Side]), "CullBack">>}
    \cup {<<"SetBlendState", blend>> :
            blend \in {None,
                Some([color |-> Channel(<<"Normal", "SourceAlpha">>,
                                        <<"Inverse", "SourceAlpha">>),
                      alpha |-> Channel(<<"Normal", "Zero">>,
                                        <<"Inverse", "Zero">>),
                      value |-> <<0, 0, 0, 0>>]),
                Some([color |-> Channel(<<"Inverse", "SourceAlphaSaturated">>,
                                        <<"Normal", "Zero">>),
                      alpha |-> Channel(<<"Normal", "Zero">>,
                                        <<"Normal", "Zero">>),
                      value |-> <<0, 0, 0, 0>>])}}
    \cup {<<"UpdateBuffer", 1, "blob">>,
          <<"UpdateTexture", Texture2D, "image", "blob">>,
          <<"Draw", 0, 3>>, <<"DrawIndexed", U16Modulus - 1, 3>>}

NewBackEnd ==
    New(BackEndVersionStrings, {VersionText(1, 30, None, <<>>)},
        BackEndExtensionSets, {Version(1, 30, None, <<>>)})

CreateShader == create_shader(BackEndShaderSources, BackEndShaderOutcomes)

CreateProgram == create_program(BackEndPrograms)

Process == process(Requests)

Next ==
    \/ NewBackEnd
    \/ create_buffer
    \/ create_array_buffer
    \/ CreateShader
    \/ CreateProgram
    \/ create_frame_buffer
    \/ create_texture
    \/ create_sampler
    \/ update_buffer
    \/ Process

Spec == InitBackEnd /\ [][Next]_vars

---------------------------------------------------------------------------
(* The specification of blend-state requests: a constructed back-end       *)
(* processes SetBlendState requests over every blend factor.               *)

\* the blend values of r::BlendValue
BlendValues ==
    {"Zero", "SourceColor", "SourceAlpha", "DestColor", "DestAlpha",
     "ConstColor", "ConstAlpha", "SourceAlphaSaturated"}

\* SetBlendState(None), and SetBlendState(Some(blend)) with every pair of
\* factors in the colour channel and every factor in each place of the
\* alpha channel
BlendRequests ==
    {<<"SetBlendState", None>>}
    \cup {<<"SetBlendState",
            Some([color |-> Channel(s, d),
                  alpha |-> Channel(<<"Normal", "Zero">>, <<"Inverse", "Zero">>),
                  value |-> <<0, 0, 0, 0>>])>> :
            s \in {"Normal", "Inverse"} \X BlendValues,
            d \in {"Normal", "Inverse"} \X BlendValues}
    \cup {<<"SetBlendState",
            Some([color |-> Channel(<<"Normal", "Zero">>, <<"Inverse", "Zero">>),
                  alpha |-> a,
                  value |-> <<0, 0, 0, 0>>])>> :
            a \in {Channel(f, <<"Normal", "Zero">>) :
                        f \in {"Normal", "Inverse"} \X BlendValues}
                   \cup {Channel(<<"Normal", "Zero">>, f) :
                        f \in {"Normal", "Inverse"} \X BlendValues}}

\* GlBackEnd::new on one driver
NewBlendBackEnd ==
    New({VersionText(3, 3, Some(0), <<"M">>)},
        {VersionText(1, 30, None, <<>>)}, {{}},
        {Version(1, 30, None, <<>>)})

ProcessBlend == process(BlendRequests)

NextBlend == NewBlendBackEnd \/ ProcessBlend

SpecBlend == InitBackEnd /\ [][NextBlend]_vars

---------------------------------------------------------------------------
(* The specification of drawing and clearing: a constructed back-end       *)
(* processes indexed draws, clears and depth-stencil states on a driver    *)
(* whose write masks are followed.                                         *)

\* start indices of the whole u16 range: the lowest, those around the
\* middle and the highest
StartIndices ==
    (0..7) \cup ((U16Modulus \div 2 - 8)..(U16Modulus \div 2 + 7))
    \cup ((U16Modulus - 8)..(U16Modulus - 1))

FrameRequests ==
    {<<"DrawIndexed", start, 3>> : start \in StartIndices}
    \cup {<<"Clear", [color |-> c, depth |-> d, stencil |-> st]>> :
            c \in {None, Some(<<0, 0, 0, 1>>)}, d \in {None, Some(1)},
            st \in {None, Some(0)}}
    \cup {<<"SetDepthStencilState", d, st, "CullNothing">> :
            d \in {None} \cup {Some([fun |-> "LessEqual", write |-> w]) :
                                  w \in BOOLEAN},
            st \in {None, Some([front |-> Side, back |-> Side])}}

\* a fresh context: depth writes enabled, every stencil bit writable
InitFrame ==
    /\ pc = "uninit"
    /\ op = Unset
    /\ ret = Unset
    /\ info = Unset
    /\ caps = Unset
    /\ make_texture = Unset
    /\ samplers = <<>>
    /\ gl = [depth_mask |-> "TRUE", stencil_mask |-> -1, depth_write |-> TRUE]
    /\ glCalls = <<>>
    /\ hist = <<>>

ProcessFrame == process(FrameRequests)

NextFrame == NewBlendBackEnd \/ ProcessFrame

SpecFrame == InitFrame /\ [][NextFrame]_vars

---------------------------------------------------------------------------
(* The specification of the two compile-and-report functions of shade.rs   *)
(* side by side: a call of create_shader or a call of create_program.      *)

InitShade == InitShader \/ InitProgram

NextShade == CallCreateShader \/ CallCreateProgram

SpecShade == InitShade /\ [][NextShade]_vars

---------------------------------------------------------------------------
(* The vocabulary of the claims about Version::parse, stated on the input  *)
(* text itself.                                                            *)

\* the text before the first space (the whole text when there is no space)
ReleaseToken(s) ==
    LET k == CHOOSE k \in 0..Len(s) :
                 /\ \A i \in 1..k : s[i] # " "
                 /\ (k = Len(s) \/ s[k + 1] = " ")
    IN  SubSeq(s, 1, k)

\* the text after the first space (empty when there is no space)
AfterFirstSpace(s) ==
    SubSeq(s, Len(ReleaseToken(s)) + 2, Len(s))

DotPositions(t) == {i \in 1..Len(t) : t[i] = "."}

NumFields(t) == Cardinality(DotPositions(t)) + 1

\* the position of the n-th dot of t; 0 for n = 0 and Len(t) + 1 past the last
NthDot(t, n) ==
    IF n = 0 THEN 0
    ELSE IF n > Cardinality(DotPositions(t)) THEN Len(t) + 1
    ELSE CHOOSE i \in DotPositions(t) :
             Cardinality({j \in DotPositions(t) : j < i}) = n - 1

\* the n-th dot-separated field of t (1 <= n <= NumFields(t))
Field(t, n) == SubSeq(t, NthDot(t, n - 1) + 1, NthDot(t, n) - 1)

IsNumeral(f) == Len(f) > 0 /\ \A i \in 1..Len(f) : f[i] \in Digits

RECURSIVE Pow10(_)
Pow10(n) == IF n = 0 THEN 1 ELSE 10 * Pow10(n - 1)

RECURSIVE PlaceValueSum(_, _)
PlaceValueSum(f, i) ==
    IF i > Len(f) THEN 0
    ELSE DigitVal(f[i]) * Pow10(Len(f) - i) + PlaceValueSum(f, i + 1)

NumeralValue(f) == PlaceValueSum(f, 1)

HasNumericField(t, n) == n <= NumFields(t) /\ IsNumeral(Field(t, n))

Parsed == pc = "return" /\ op.name = "Version::parse"

(* C1: Version::parse fails for every input whose first or second          *)
(* dot-separated field of the release token is missing, empty or not a     *)
(* non-negative integer, and the error payload is the input unchanged.     *)
C1_ParseRejects ==
    Parsed =>
        LET t == ReleaseToken(op.src) IN
        ~(HasNumericField(t, 1) /\ HasNumericField(t, 2))
            => ret = Err(op.src)

\* "1. h." was rejected and handed back
C1_Witness ==
    /\ Parsed
    /\ op.src = <<"1", ".", " ", "h", ".">>
    /\ ret = Err(op.src)

(* C2: when the release token starts with two numeric fields, parse        *)
(* succeeds with major and minor equal to them, revision equal to the      *)
(* third field when that is numeric and None otherwise, vendor_info equal  *)
(* to the whole text after the first space; further fields are ignored.    *)
C2_ParseAccepts ==
    Parsed =>
        LET t == ReleaseToken(op.src) IN
        (HasNumericField(t, 1) /\ HasNumericField(t, 2))
            => ret = Ok(Version(NumeralValue(Field(t, 1)),
                                NumeralValue(Field(t, 2)),
                                IF HasNumericField(t, 3)
                                    THEN Some(NumeralValue(Field(t, 3)))
                                    ELSE None,
                                AfterFirstSpace(op.src)))

\* "1.2.3.h3l1o. W0rld" has a fourth field, which is ignored
C2_Witness ==
    /\ Parsed
    /\ op.src = <<"1", ".", "2", ".", "3", ".", "h", "3", "l", "1", "o", ".", " ", "W", "0", "r", "l", "d">>
    /\ ret = Ok(Version(1, 2, Some(3), <<"W", "0", "r", "l", "d">>))

---------------------------------------------------------------------------
(* The vocabulary of the claims about the ordering. *)

Compared == pc = "return" /\ op.name = "Version::cmp"

RevisionOr0(v) == IF v.revision = None THEN 0 ELSE v.revision[1]

\* (major, minor, revision-or-0)
NumericKey(v) == <<v.major, v.minor, RevisionOr0(v)>>

\* k1 is before k2 in the lexicographic order of tuples of numbers
TupleLess(k1, k2) ==
    \E i \in 1..Len(k1) :
        /\ \A j \in 1..(i - 1) : k1[j] = k2[j]
        /\ k1[i] < k2[i]

\* s is before t as byte strings
BytesLess(s, t) ==
    \E i \in 1..Len(t) :
        /\ i - 1 <= Len(s)
        /\ \A j \in 1..(i - 1) : s[j] = t[j]
        /\ (i > Len(s) \/ CharCode(s[i]) < CharCode(t[i]))

\* an absent revision before every present one
RevisionLess(r1, r2) ==
    \/ r1 = None /\ r2 # None
    \/ r1 # None /\ r2 # None /\ r1[1] < r2[1]

\* a is before b comparing major, minor, revision, vendor_info in this order
FieldwiseLess(a, b) ==
    \/ a.major < b.major
    \/ a.major = b.major /\ a.minor < b.minor
    \/ a.major = b.major /\ a.minor = b.minor
        /\ RevisionLess(a.revision, b.revision)
    \/ a.major = b.major /\ a.minor = b.minor /\ a.revision = b.revision
        /\ BytesLess(a.vendor_info, b.vendor_info)

(* C3 as stated: ordering and equality compare exactly (major, minor,      *)
(* revision with an absent revision counted as 0): None and Some(0)        *)
(* compare equal, versions that differ only in vendor_info compare equal.  *)
C3_NumericOrder ==
    Compared =>
        /\ (ret.ab = "Less") = TupleLess(NumericKey(op.a), NumericKey(op.b))
        /\ (ret.ab = "Equal") = (NumericKey(op.a) = NumericKey(op.b))
        /\ ret.eq_ab = (NumericKey(op.a) = NumericKey(op.b))

(* C3 amended: ordering and equality are a total order that compares       *)
(* (major, minor, revision, vendor_info) field by field, an absent         *)
(* revision before every present one and vendor_info as a byte string; it  *)
(* never inverts the (major, minor, revision-or-0) order, but None is      *)
(* less than Some(0) and versions that differ in vendor_info are unequal.  *)
C3_DerivedOrder ==
    Compared =>
        /\ (ret.ab = "Less") = FieldwiseLess(op.a, op.b)
        /\ (ret.ab = "Greater") = FieldwiseLess(op.b, op.a)
        /\ (ret.ab = "Equal") = (op.a = op.b)
        /\ ret.eq_ab = (op.a = op.b)
        /\ (ret.ab = "Less") = (ret.ba = "Greater")
        /\ (ret.ab = "Equal") = (ret.ba = "Equal")
        /\ (ret.ab # "Greater" /\ ret.bc # "Greater") => ret.ac # "Greater"
        /\ TupleLess(NumericKey(op.a), NumericKey(op.b)) => ret.ab = "Less"

\* 3.1 against 3.1.0, and the same numbers with another vendor text
C3_Witness ==
    /\ Compared
    /\ op.a = Version(3, 1, None, <<>>)
    /\ op.b = Version(3, 1, Some(0), <<>>)
    /\ op.c = Version(3, 1, Some(0), <<"M">>)
    /\ ret.ab = "Less"
    /\ ret.bc = "Less"
    /\ ~ret.eq_ab

---------------------------------------------------------------------------
(* The vocabulary of the claims about create_shader. *)

ShaderCreated == pc = "return" /\ op.name = "shade::create_shader"

\* the GLSL tags of a bundle, each with its (major, minor) number
GlslTags == {"glsl_120", "glsl_130", "glsl_140", "glsl_150"}

TagMinor(tag) ==
    CASE tag = "glsl_120" -> 20 [] tag = "glsl_130" -> 30
      [] tag = "glsl_140" -> 40 [] tag = "glsl_150" -> 50

\* the tag is not greater than the version under (major, minor, revision-or-0)
TagWithin(tag, lang) ==
    ~TupleLess(NumericKey(lang), <<1, TagMinor(tag), 0>>)

\* the tags that are present in the bundle and within the negotiated version
Qualifying(data, lang) ==
    {tag \in GlslTags : data[tag] # None /\ TagWithin(tag, lang)}

HighestTag(tags) ==
    CHOOSE t \in tags : \A u \in tags : TagMinor(u) <= TagMinor(t)

CallsTo(fn) == SelectSeq(glCalls, LAMBDA c : c.fn = fn)

(* C5: create_shader compiles the source of the highest GLSL tag that is   *)
(* present in the bundle and not greater than the negotiated version; when *)
(* no tag qualifies it returns NoSupportedShaderProvided and neither       *)
(* ShaderSource nor CompileShader is issued.                               *)
C5_VariantSelection ==
    ShaderCreated =>
        LET q == Qualifying(op.data, op.lang) IN
        IF q = {}
        THEN /\ ret[1] = Err("NoSupportedShaderProvided")
             /\ CallsTo("ShaderSource") = <<>>
             /\ CallsTo("CompileShader") = <<>>
        ELSE /\ ret[1] # Err("NoSupportedShaderProvided")
             /\ Len(CallsTo("ShaderSource")) = 1
             /\ CallsTo("ShaderSource")[1].arg[2] = op.data[HighestTag(q)][1]
             /\ Len(CallsTo("CompileShader")) = 1

\* the bundle {1.20, 1.30, 1.50} under GLSL 1.40 compiled the 1.30 source
C5_Witness ==
    /\ ShaderCreated
    /\ op.data = [glsl_120 |-> Some("source 1.20"),
                  glsl_130 |-> Some("source 1.30"),
                  glsl_140 |-> None,
                  glsl_150 |-> Some("source 1.50")]
    /\ op.lang = Version(1, 40, None, <<>>)
    /\ CallsTo("ShaderSource")[1].arg[2] = "source 1.30"
    /\ ret[1].tag = "Ok"

\* under GLSL 1.10 the same bundle was refused
C5_WitnessNone ==
    /\ ShaderCreated
    /\ op.lang = Version(1, 10, None, <<>>)
    /\ op.data.glsl_120 # None
    /\ ret[1] = Err("NoSupportedShaderProvided")

---------------------------------------------------------------------------
(* The vocabulary of the claims about create_program. *)

ProgramCreated == pc = "return" /\ op.name = "shade::create_program"

Linked == ProgramCreated /\ gl.program.link_status # 0

\* the ProgramInfo of a successful create_program
ProgramInfo == ret[1].val[2]

\* the type code is in the mapping table as a variable / as a sampler
IsVarCode(code) == StorageType_new(code).tag = "Var"

IsSamplerCode(code) == StorageType_new(code).tag = "Sampler"

\* the uniform is outside every uniform block, as far as the back-end asks
IsFreeUniform(e) == ~op.caps.uniform_block_supported \/ e.block < 0

FreeVarUniforms ==
    SelectSeq(gl.program.uniforms,
              LAMBDA e : IsFreeUniform(e) /\ IsVarCode(e.type))

FreeSamplerUniforms ==
    SelectSeq(gl.program.uniforms,
              LAMBDA e : IsFreeUniform(e) /\ IsSamplerCode(e.type))

\* the descriptor carries the name, location and count of the driver entry
SameResource(d, e) ==
    d.name = e.name /\ d.location = e.location /\ d.count = e.size

(* C6: create_program on a successfully linked program never returns an    *)
(* error because of an unrecognized type code: a uniform whose code is     *)
(* outside the table is in neither list, an attribute whose code is        *)
(* unrecognized or a sampler becomes an F32 Single attribute with its      *)
(* name, location and count, and every other attribute and free uniform    *)
(* is returned, in driver index order.                                     *)
C6_UnknownTolerated ==
    Linked =>
        /\ ret[1].tag = "Ok"
        /\ Len(ProgramInfo.attributes) = Len(gl.program.attribs)
        /\ \A i \in 1..Len(gl.program.attribs) :
            LET e == gl.program.attribs[i]
                d == ProgramInfo.attributes[i]
            IN  /\ SameResource(d, e)
                /\ IF IsVarCode(e.type)
                   THEN /\ d.base_type = StorageType_new(e.type).base
                        /\ d.container = StorageType_new(e.type).shape
                   ELSE /\ d.base_type = "BaseF32"
                        /\ d.container = Single
        /\ Len(ProgramInfo.uniforms) = Len(FreeVarUniforms)
        /\ \A k \in 1..Len(FreeVarUniforms) :
            /\ SameResource(ProgramInfo.uniforms[k], FreeVarUniforms[k])
            /\ ProgramInfo.uniforms[k].base_type
                    = StorageType_new(FreeVarUniforms[k].type).base
            /\ ProgramInfo.uniforms[k].container
                    = StorageType_new(FreeVarUniforms[k].type).shape
        /\ Len(ProgramInfo.textures) = Len(FreeSamplerUniforms)
        /\ \A k \in 1..Len(FreeSamplerUniforms) :
            /\ ProgramInfo.textures[k].name = FreeSamplerUniforms[k].name
            /\ ProgramInfo.textures[k].location
                    = FreeSamplerUniforms[k].location
            /\ ProgramInfo.textures[k].sampler_type
                    = StorageType_new(FreeSamplerUniforms[k].type).shape

\* an unlisted attribute code and an unlisted uniform code, each followed by
\* a listed one: two attributes came back, the first as F32 Single, and one
\* uniform, the second of the driver
C6_Witness ==
    /\ Linked
    /\ Len(gl.program.attribs) = 2
    /\ gl.program.attribs[1].type = "DOUBLE"
    /\ gl.program.attribs[2].type = "FLOAT_VEC3"
    /\ Len(gl.program.uniforms) = 2
    /\ gl.program.uniforms[1].type = "INT_SAMPLER_2D"
    /\ gl.program.uniforms[1].block < 0
    /\ gl.program.uniforms[2].type = "FLOAT_MAT2x3"
    /\ gl.program.uniforms[2].block < 0
    /\ ret[1].tag = "Ok"
    /\ Len(ProgramInfo.attributes) = 2
    /\ ProgramInfo.attributes[1].container = Single
    /\ ProgramInfo.attributes[2].container = Vector(3)
    /\ Len(ProgramInfo.uniforms) = 1
    /\ ProgramInfo.uniforms[1].name = gl.program.uniforms[2].name
    /\ ProgramInfo.textures = <<>>

\* the driver indices the per-uniform queries were issued for
QueriedUniformIndices ==
    {CallsTo("GetActiveUniform")[k].arg[2] :
        k \in 1..Len(CallsTo("GetActiveUniform"))}

\* the names GetUniformLocation was asked for
LocatedUniformNames ==
    {CallsTo("GetUniformLocation")[k].arg[2] :
        k \in 1..Len(CallsTo("GetUniformLocation"))}

ReturnedUniformNames ==
    {ProgramInfo.uniforms[k].name : k \in 1..Len(ProgramInfo.uniforms)}
    \cup {ProgramInfo.textures[k].name : k \in 1..Len(ProgramInfo.textures)}

(* C8: with uniform_block_supported, every active uniform with a block     *)
(* index >= 0 is absent from the uniforms and the textures list and no     *)
(* name/type/location query is issued for it; every active uniform with a  *)
(* negative block index is queried.                                        *)
C8_BlockUniformsExcluded ==
    (Linked /\ op.caps.uniform_block_supported) =>
        \A i \in 1..Len(gl.program.uniforms) :
            LET e == gl.program.uniforms[i] IN
            IF e.block >= 0
            THEN /\ e.name \notin ReturnedUniformNames
                 /\ (i - 1) \notin QueriedUniformIndices
                 /\ e.name \notin LocatedUniformNames
            ELSE /\ (i - 1) \in QueriedUniformIndices
                 /\ e.name \in LocatedUniformNames

\* the first uniform is in block 0 and the second is free: only the second
\* was queried and returned
C8_Witness ==
    /\ Linked
    /\ op.caps.uniform_block_supported
    /\ Len(gl.program.uniforms) = 2
    /\ gl.program.uniforms[1].block = 0
    /\ gl.program.uniforms[1].type = "FLOAT_MAT2x3"
    /\ gl.program.uniforms[2].block = -1
    /\ gl.program.uniforms[2].type = "FLOAT_MAT2x3"
    /\ QueriedUniformIndices = {1}
    /\ Len(ProgramInfo.uniforms) = 1
    /\ ProgramInfo.uniforms[1].name = gl.program.uniforms[2].name

---------------------------------------------------------------------------
(* The vocabulary of the claims about the capabilities. *)

Constructed == pc = "ready"

\* the driver version is at least major.minor, comparing
\* (major, minor, revision-or-0)
AtLeast(v, major, minor) ==
    ~TupleLess(NumericKey(v), <<major, minor, 0>>)

\* the flag is set exactly when the version or the extension is there
FlagRule(flag, major, minor, extension) ==
    flag = (AtLeast(info.version, major, minor)
            \/ extension \in info.extensions)

(* C4: for every parsed driver version and every extension set, each       *)
(* capability flag is true exactly when the driver version is at least     *)
(* the flag's threshold under (major, minor, revision-or-0) comparison or  *)
(* the flag's extension is in the set: uniform_block_supported (3.1,       *)
(* GL_ARB_uniform_buffer_object), array_buffer_supported (3.0,             *)
(* GL_ARB_vertex_array_object), immutable_storage_supported (4.2,          *)
(* GL_ARB_texture_storage), sampler_objects_supported (3.3,                *)
(* GL_ARB_sampler_objects).                                                *)
C4_CapabilityFlags ==
    Constructed =>
        /\ FlagRule(caps.uniform_block_supported, 3, 1,
                    "GL_ARB_uniform_buffer_object")
        /\ FlagRule(caps.array_buffer_supported, 3, 0,
                    "GL_ARB_vertex_array_object")
        /\ FlagRule(caps.immutable_storage_supported, 4, 2,
                    "GL_ARB_texture_storage")
        /\ FlagRule(caps.sampler_objects_supported, 3, 3,
                    "GL_ARB_sampler_objects")

\* "3.1.0 M" with only GL_ARB_texture_storage: the version alone gives
\* uniform blocks and array buffers, the extension alone gives immutable
\* storage, and sampler objects have neither
C4_Witness ==
    /\ Constructed
    /\ info.version = Version(3, 1, Some(0), <<"M">>)
    /\ info.extensions = {"GL_ARB_texture_storage"}
    /\ caps.uniform_block_supported
    /\ caps.array_buffer_supported
    /\ caps.immutable_storage_supported
    /\ ~caps.sampler_objects_supported

---------------------------------------------------------------------------
(* The vocabulary of the claims about the back-end in use. *)

\* the back-end answers create_sampler from its list
Emulating == caps # Unset /\ ~caps.sampler_objects_supported

\* s is a prefix of t
IsPrefix(s, t) == Len(s) <= Len(t) /\ SubSeq(t, 1, Len(s)) = s

\* C7: on a back-end without sampler objects, whatever other operations
\* came between them, the k-th create_sampler call (k from 0) returned the
\* handle k, and after N calls the emulation list has exactly N entries.
C7_SamplerHandles ==
    Emulating =>
        /\ \A k \in 1..Len(hist) : hist[k].handle = k - 1
        /\ Len(samplers) = Len(hist)

\* the list holds as many samplers as the bound allows, created between
\* other operations, and a request has just been processed
C7_Witness ==
    /\ Emulating
    /\ Len(hist) = MaxSamplers
    /\ hist[1].info # hist[MaxSamplers].info
    /\ op.name = "process"

\* C9: the emulation list changes only when create_sampler runs on a
\* back-end without sampler objects, and then by one entry appended, the
\* SamplerInfo of the call: the list before a step is a prefix of the list
\* after it, and the entry at a handle returned earlier stays the
\* SamplerInfo of the call that returned it.  With sampler objects the
\* list stays empty and create_sampler returns the handle the driver made.
C9_AppendOnly ==
    /\ [][/\ IsPrefix(samplers, samplers')
          /\ samplers' # samplers =>
                /\ op'.name = "create_sampler"
                /\ Emulating
                /\ samplers' = Append(samplers, op'.info)]_vars
    /\ [](Emulating =>
            \A k \in 1..Len(hist) :
                /\ hist[k].handle + 1 \in 1..Len(samplers)
                /\ samplers[hist[k].handle + 1] = hist[k].info)
    /\ []((caps # Unset /\ caps.sampler_objects_supported) =>
            /\ samplers = <<>>
            /\ op.name = "create_sampler" =>
                    /\ Len(CallsTo("tex::make_sampler")) = 1
                    /\ ret = CallsTo("tex::make_sampler")[1].out[1])

\* two different samplers were created from the list and a texture was
\* then bound with the first one's handle
C9_Witness ==
    /\ Emulating
    /\ Len(hist) >= 2
    /\ hist[1].info # hist[2].info
    /\ op.name = "process"
    /\ op.request[1] = "BindTexture"
    /\ op.request[4] = Some(hist[1].handle)

\* a sampler object was created on a driver that has them
C9_WitnessObjects ==
    /\ caps # Unset
    /\ caps.sampler_objects_supported
    /\ op.name = "create_sampler"
    /\ ret = 2

\* C10: the Capabilities and the texture-creation function are set by
\* GlBackEnd::new and changed by no later operation; the function is the
\* immutable-storage one exactly when caps.immutable_storage_supported,
\* the mutable one otherwise, and create_texture calls the stored function
\* and returns what it returned.
C10_StrategyFixed ==
    /\ [][pc # "uninit" => /\ caps' = caps
                           /\ make_texture' = make_texture]_vars
    /\ [](caps # Unset =>
            /\ make_texture = "tex::make_with_storage"
                    <=> caps.immutable_storage_supported
            /\ make_texture = "tex::make_without_storage"
                    <=> ~caps.immutable_storage_supported)
    /\ []((pc = "ready" /\ op.name = "create_texture") =>
            /\ Len(glCalls) = 1
            /\ glCalls[1].fn = make_texture
            /\ glCalls[1].arg = <<op.info>>
            /\ ret = glCalls[1].out[1])

\* a texture was created on a 2.1 driver that has immutable storage by its
\* extension
C10_Witness ==
    /\ pc = "ready"
    /\ op.name = "create_texture"
    /\ caps.immutable_storage_supported
    /\ info.version.major = 2
    /\ glCalls[1].fn = "tex::make_with_storage"

\* a texture was created on a driver without immutable storage
C10_WitnessMutable ==
    /\ pc = "ready"
    /\ op.name = "create_texture"
    /\ ~caps.immutable_storage_supported
    /\ glCalls[1].fn = "tex::make_without_storage"

---------------------------------------------------------------------------
(* The vocabulary of the claims about compile and link results. *)

\* what the driver wrote back to the one call of fn with this query
Answer(fn, query) ==
    LET cs == SelectSeq(CallsTo(fn), LAMBDA c : c.arg[2] = query) IN
    cs[1].out[1]

\* create_shader got as far as compiling a variant
Compiled == ShaderCreated /\ Qualifying(op.data, op.lang) # {}

\* C11: for create_shader, once a variant is selected, and for
\* create_program, the result is Ok exactly when the compile or link status
\* the driver reported is non-zero, and the diagnostic text is returned
\* exactly when the info-log length the driver reported is greater than
\* zero, whatever the status is.
C11_StatusAndLog ==
    /\ Compiled =>
        /\ ret[1].tag = "Ok" <=> Answer("GetShaderiv", "COMPILE_STATUS") # 0
        /\ ret[2] # None <=> Answer("GetShaderiv", "INFO_LOG_LENGTH") > 0
    /\ ProgramCreated =>
        /\ ret[1].tag = "Ok" <=> gl.program.link_status # 0
        /\ ret[2] # None <=> gl.program.log_length > 0
        /\ Answer("GetProgramiv", "LINK_STATUS") = gl.program.link_status
        /\ Answer("GetProgramiv", "INFO_LOG_LENGTH") = gl.program.log_length

\* a program linked and its log, of one terminator only, was returned
C11_Witness ==
    /\ ProgramCreated
    /\ gl.program.link_status # 0
    /\ gl.program.log_length = 1
    /\ ret[1].tag = "Ok"
    /\ ret[2] = Some(<<>>)

\* the other three combinations, and the four of create_shader
C11_WitnessOkNoLog ==
    ProgramCreated /\ ret[1].tag = "Ok" /\ ret[2] = None

C11_WitnessErrLog ==
    ProgramCreated /\ ret[1].tag = "Err" /\ ret[2] = Some(<<"W">>)

C11_WitnessErrNoLog ==
    ProgramCreated /\ ret[1].tag = "Err" /\ ret[2] = None

C11_WitnessShaderOkLog ==
    Compiled /\ ret[1].tag = "Ok" /\ ret[2] = Some(<<"W">>)

C11_WitnessShaderOkNoLog ==
    Compiled /\ ret[1].tag = "Ok" /\ ret[2] = None

C11_WitnessShaderErrLog ==
    Compiled /\ ret[1] = Err("ShaderCompilationFailed") /\ ret[2] # None

C11_WitnessShaderErrNoLog ==
    Compiled /\ ret[1] = Err("ShaderCompilationFailed") /\ ret[2] = None

---------------------------------------------------------------------------
(* The vocabulary of the claim about the order of create_program's calls. *)

\* the positions in the call log of the calls that satisfy P
Positions(P(_)) == {k \in 1..Len(glCalls) : P(glCalls[k])}

\* the GetProgramiv calls for one query
ProgramQueries(query) ==
    SelectSeq(glCalls, LAMBDA c : c.fn = "GetProgramiv" /\ c.arg[2] = query)

IsAttach(c) == c.fn = "AttachShader"

IsLink(c) == c.fn = "LinkProgram"

\* the link-status and info-log queries
IsLinkQuery(c) ==
    \/ c.fn = "GetProgramiv" /\ c.arg[2] \in {"LINK_STATUS", "INFO_LOG_LENGTH"}
    \/ c.fn = "GetProgramInfoLog"

\* a query of the attribute, uniform or uniform-block tables
IsReflection(c) ==
    \/ c.fn \in {"GetActiveAttrib", "GetAttribLocation", "GetActiveUniform",
                 "GetUniformLocation", "GetActiveUniformsiv",
                 "GetActiveUniformBlockiv", "GetActiveUniformBlockName"}
    \/ c.fn = "GetProgramiv"
        /\ c.arg[2] \in {"ACTIVE_ATTRIBUTES", "ACTIVE_ATTRIBUTE_MAX_LENGTH",
                         "ACTIVE_UNIFORMS", "ACTIVE_UNIFORM_MAX_LENGTH",
                         "ACTIVE_UNIFORM_BLOCKS"}

\* every position of S comes before every position of T
AllBefore(S, T) == \A i \in S, j \in T : i < j

\* C12: create_program attaches every given shader, in the order given,
\* then links once, then queries the link status and the info log, and only
\* after these, and only when the link status is non-zero, queries the
\* attribute, uniform and uniform-block tables; when the link status is
\* zero it returns Err and makes no reflection query.
C12_CallOrder ==
    ProgramCreated =>
        /\ Len(CallsTo("AttachShader")) = Len(op.shaders)
        /\ \A k \in 1..Len(op.shaders) :
                CallsTo("AttachShader")[k].arg = <<gl.program.name, op.shaders[k]>>
        /\ Cardinality(Positions(IsLink)) = 1
        /\ AllBefore(Positions(IsAttach), Positions(IsLink))
        /\ AllBefore(Positions(IsLink), Positions(IsLinkQuery))
        /\ Len(ProgramQueries("LINK_STATUS")) = 1
        /\ Len(ProgramQueries("INFO_LOG_LENGTH")) = 1
        /\ AllBefore(Positions(IsLinkQuery), Positions(IsReflection))
        /\ IF gl.program.link_status # 0
           THEN /\ ret[1].tag = "Ok"
                /\ Len(ProgramQueries("ACTIVE_ATTRIBUTES")) = 1
                /\ Len(ProgramQueries("ACTIVE_UNIFORMS")) = 1
                /\ op.caps.uniform_block_supported =>
                        Len(ProgramQueries("ACTIVE_UNIFORM_BLOCKS")) = 1
           ELSE /\ ret[1] = Err(<<>>)
                /\ Positions(IsReflection) = {}

\* two shaders were attached to a program that failed to link with a log:
\* the log was fetched and nothing was reflected
C12_Witness ==
    /\ ProgramCreated
    /\ op.shaders = <<1, 2>>
    /\ gl.program.link_status = 0
    /\ gl.program.log_length = 2
    /\ Len(CallsTo("GetProgramInfoLog")) = 1
    /\ glCalls[Len(glCalls)].fn = "GetProgramInfoLog"

\* two shaders were attached to a program that linked with a log, and its
\* three tables were queried after the log was fetched
C12_WitnessLinked ==
    /\ ProgramCreated
    /\ op.shaders = <<1, 2>>
    /\ gl.program.link_status # 0
    /\ gl.program.log_length = 2
    /\ Len(gl.program.attribs) = 1
    /\ Len(gl.program.uniforms) = 1
    /\ Len(gl.program.blocks) = 1
    /\ Len(CallsTo("GetActiveUniformBlockName")) = 1

---------------------------------------------------------------------------
(* The vocabulary of the claim about a back-end that cannot be made. *)

\* GlBackEnd::new was called on a driver one of whose two version strings
\* Version::parse refuses
NewOnUnparseable ==
    /\ pc # "uninit"
    /\ op.name = "new"
    /\ \/ Version_parse(op.version).tag = "Err"
       \/ Version_parse(op.shading_language).tag = "Err"

\* C13: when the driver's version string or shading-language version
\* string does not parse, GlBackEnd::new hands a failure result to its
\* caller: the task is not ended and no GlBackEnd is made.
C13_InitReturnsFailure ==
    NewOnUnparseable =>
        /\ pc # "panicked"
        /\ ret # Unset
        /\ ret.tag = "Err"
        /\ caps = Unset
        /\ make_texture = Unset

\* what the code does instead: the unwrap ends the task, nothing is
\* returned and no back-end is made
C13_InitPanics ==
    NewOnUnparseable =>
        /\ pc = "panicked"
        /\ ret = Unset
        /\ info = Unset
        /\ caps = Unset
        /\ make_texture = Unset

\* the version string parsed and the shading-language string did not
C13_Witness ==
    /\ NewOnUnparseable
    /\ Version_parse(op.version).tag = "Ok"
    /\ Version_parse(op.shading_language).tag = "Err"
    /\ pc = "panicked"

---------------------------------------------------------------------------
(* The vocabulary of the claims about single operations of the back-end. *)

\* the last operation of the back-end was this one
Did(name) == pc \in {"ready", "panicked"} /\ op.name = name

\* the fields of the GlBackEnd
BackEndFields == <<info, caps, make_texture, samplers>>

\* C14: create_array_buffer on a back-end without array buffers returns a
\* failure, makes no driver call and changes no field of the back-end; with
\* array buffers it returns Ok of the name GenVertexArrays generated.
C14_ArrayBufferGated ==
    /\ [](Did("create_array_buffer") =>
            IF caps.array_buffer_supported
            THEN /\ Len(glCalls) = 1
                 /\ glCalls[1].fn = "GenVertexArrays"
                 /\ ret = Ok(glCalls[1].out[1])
            ELSE /\ ret = Err(<<>>)
                 /\ glCalls = <<>>)
    /\ [][op'.name = "create_array_buffer" => UNCHANGED BackEndFields]_vars

\* the call was refused on a 2.1 driver after a sampler was put on the list
C14_Witness ==
    /\ Did("create_array_buffer")
    /\ ~caps.array_buffer_supported
    /\ Len(samplers) = 1
    /\ ret = Err(<<>>)

\* the call was served on a driver with array buffers
C14_WitnessSupported ==
    /\ Did("create_array_buffer")
    /\ caps.array_buffer_supported
    /\ ret = Ok(2)

---------------------------------------------------------------------------
(* The vocabulary of the claim about a third field that is no number. *)

\* the input has no space, two numeric fields and a third field that is
\* present and is not a number
ThirdFieldNotNumeric ==
    /\ Parsed
    /\ \A i \in 1..Len(op.src) : op.src[i] # " "
    /\ HasNumericField(op.src, 1)
    /\ HasNumericField(op.src, 2)
    /\ NumFields(op.src) >= 3
    /\ ~IsNumeral(Field(op.src, 3))

\* the text after the second dot
AfterSecondDot(s) == SubSeq(s, NthDot(s, 2) + 1, Len(s))

\* C15 as stated: for an input without a space whose first two fields are
\* numeric and whose third field is present and not numeric, parse succeeds
\* with revision None and vendor_info the text after the second dot.
C15_VendorAfterDot ==
    ThirdFieldNotNumeric =>
        /\ ret.tag = "Ok"
        /\ ret.val.revision = None
        /\ ret.val.vendor_info = AfterSecondDot(op.src)

\* C15 as the code has it: for such an input parse succeeds with the two
\* numbers, revision None and an empty vendor_info: the vendor text is only
\* ever the text after the first space, and the third field is dropped.
C15_VendorOnlyAfterSpace ==
    ThirdFieldNotNumeric =>
        ret = Ok(Version(NumeralValue(Field(op.src, 1)),
                         NumeralValue(Field(op.src, 2)), None, <<>>))

\* "1.2.h" was parsed as 1.2 with no vendor text
C15_Witness ==
    /\ ThirdFieldNotNumeric
    /\ op.src = <<"1", ".", "2", ".", "h">>
    /\ ret = Ok(Version(1, 2, None, <<>>))

---------------------------------------------------------------------------
(* The vocabulary of the claim about uniform-block reflection. *)

\* a driver call that asks about uniform blocks of the program
IsBlockCall(c) ==
    \/ c.fn \in {"GetActiveUniformBlockiv", "GetActiveUniformBlockName"}
    \/ c.fn = "GetProgramiv" /\ c.arg[2] = "ACTIVE_UNIFORM_BLOCKS"

\* the positions in the call log of one query about the block at index i
BlockQueryAt(i, query) ==
    Positions(LAMBDA c : /\ c.fn = "GetActiveUniformBlockiv"
                         /\ c.arg[2] = i
                         /\ c.arg[3] = query)

\* the positions in the call log of the name retrievals for index i
BlockNameAt(i) ==
    Positions(LAMBDA c : c.fn = "GetActiveUniformBlockName" /\ c.arg[2] = i)

\* bit n of a usage mask
Bit(mask, n) == (mask \div (2 ^ n)) % 2 = 1

(* C16: query_blocks returns the empty list and asks the driver nothing    *)
(* about uniform blocks when uniform_block_supported is false; when it is  *)
(* true it returns one BlockVar per active block index, in index order,    *)
(* with the driver's block name (retrieved once, after the one name-length *)
(* query for that index and into a buffer of that length), the driver's    *)
(* data size as size, and usage with bit 0 set exactly when the vertex     *)
(* stage references the block and bit 1 exactly when the fragment stage    *)
(* does.                                                                   *)
C16_BlockReflection ==
    Linked =>
        LET blocks == ProgramInfo.blocks
            drv == gl.program.blocks
        IN  IF ~op.caps.uniform_block_supported
            THEN blocks = <<>> /\ Positions(IsBlockCall) = {}
            ELSE
            /\ Len(blocks) = Len(drv)
            /\ \A i \in 1..Len(drv) :
                /\ blocks[i].name = drv[i].name
                /\ blocks[i].size = drv[i].data_size
                /\ Bit(blocks[i].usage, 0) <=> drv[i].by_vertex # 0
                /\ Bit(blocks[i].usage, 1) <=> drv[i].by_fragment # 0
                /\ blocks[i].usage \in 0..3
                /\ \E q \in BlockQueryAt(i - 1, "UNIFORM_BLOCK_NAME_LENGTH") :
                   \E n \in BlockNameAt(i - 1) :
                    /\ BlockQueryAt(i - 1, "UNIFORM_BLOCK_NAME_LENGTH") = {q}
                    /\ BlockNameAt(i - 1) = {n}
                    /\ q < n
                    /\ glCalls[n].arg[3] = glCalls[q].out[1]
                    /\ glCalls[q].out[1] = Len(drv[i].name) + 1

\* two blocks were reflected, with different usage masks and with data
\* sizes that differ from the name lengths
C16_Witness ==
    /\ Linked
    /\ op.caps.uniform_block_supported
    /\ Len(ProgramInfo.blocks) = 2
    /\ ProgramInfo.blocks[1] = [name |-> <<"B", "0">>, size |-> 16, usage |-> 2]
    /\ ProgramInfo.blocks[2] = [name |-> <<"C">>, size |-> 4, usage |-> 3]
    /\ gl.program.blocks[2].by_vertex = 2

\* a link on a back-end without uniform blocks
C16_WitnessUnsupported ==
    /\ Linked
    /\ ~op.caps.uniform_block_supported
    /\ ProgramInfo.blocks = <<>>
    /\ Len(glCalls) > 0

\* a block that only the vertex stage references
C16_WitnessVertexOnly ==
    /\ Linked
    /\ Len(ProgramInfo.blocks) = 2
    /\ ProgramInfo.blocks[2].usage = 1

---------------------------------------------------------------------------
(* The vocabulary of the claim about blend factors. *)

\* a SetBlendState request was processed
BlendProcessed == Did("process") /\ op.request[1] = "SetBlendState"

\* the four factors of a blend
FactorsOf(b) ==
    {b.color.source, b.color.destination, b.alpha.source, b.alpha.destination}

InverseSaturated == <<"Inverse", "SourceAlphaSaturated">>

(* C17: processing a SetBlendState request never fails the task: for every *)
(* blend factor (Normal or Inverse of each blend value) map_factor yields  *)
(* a driver enum, and bind_blend gets as far as BlendFuncSeparate and      *)
(* BlendColor.                                                             *)
C17_BlendNeverFails ==
    BlendProcessed =>
        /\ pc # "panicked"
        /\ op.request[2] # None =>
            /\ \A f \in FactorsOf(op.request[2][1]) : map_factor(f) # "fail!"
            /\ Len(CallsTo("BlendFuncSeparate")) = 1
            /\ Len(CallsTo("BlendColor")) = 1

\* what the code does: the task fails exactly when one of the four factors
\* is Inverse of SourceAlphaSaturated, after Enable and
\* BlendEquationSeparate and before BlendFuncSeparate
C17_FailsOnInverseSaturated ==
    BlendProcessed =>
        LET blend == op.request[2] IN
        (pc = "panicked") <=>
            (blend # None /\ InverseSaturated \in FactorsOf(blend[1]))

\* a blend whose alpha destination is Inverse of SourceAlphaSaturated was
\* requested and the task failed with blending enabled and no blend
\* function set
C17_Witness ==
    /\ BlendProcessed
    /\ pc = "panicked"
    /\ op.request[2] # None
    /\ op.request[2][1].alpha.destination = InverseSaturated
    /\ Len(CallsTo("Enable")) = 1
    /\ Len(CallsTo("BlendFuncSeparate")) = 0

---------------------------------------------------------------------------
(* The vocabulary of the claim about the type-code table: the codes by     *)
(* what their names say.                                                   *)

StorageMapped == pc = "return" /\ op.name = "StorageType::new"

BaseTypes == {"BaseF32", "BaseI32", "BaseU32", "BaseBool"}

\* the scalar code of a base type
ScalarCode(base) ==
    CASE base = "BaseF32" -> "FLOAT" [] base = "BaseI32" -> "INT"
      [] base = "BaseU32" -> "UNSIGNED_INT" [] base = "BaseBool" -> "BOOL"

\* the code of the n-vector of a base type
VectorCode(base, n) ==
    LET names ==
        CASE base = "BaseF32" -> <<"FLOAT_VEC2", "FLOAT_VEC3", "FLOAT_VEC4">>
          [] base = "BaseI32" -> <<"INT_VEC2", "INT_VEC3", "INT_VEC4">>
          [] base = "BaseU32" -> <<"UNSIGNED_INT_VEC2", "UNSIGNED_INT_VEC3",
                                   "UNSIGNED_INT_VEC4">>
          [] base = "BaseBool" -> <<"BOOL_VEC2", "BOOL_VEC3", "BOOL_VEC4">>
    IN  names[n - 1]

\* the code named FLOAT_MATr (r = c) or FLOAT_MATrxc
MatrixCode(r, c) ==
    <<<<"FLOAT_MAT2", "FLOAT_MAT2x3", "FLOAT_MAT2x4">>,
      <<"FLOAT_MAT3x2", "FLOAT_MAT3", "FLOAT_MAT3x4">>,
      <<"FLOAT_MAT4x2", "FLOAT_MAT4x3", "FLOAT_MAT4">>>>[r - 1][c - 1]

\* the float sampler codes: <<code, dimensionality, the words ARRAY, SHADOW,
\* MULTISAMPLE and RECT being in the name>>
FloatSamplerCodes ==
    {<<"SAMPLER_1D", 1, FALSE, FALSE, FALSE, FALSE>>,
     <<"SAMPLER_1D_ARRAY", 1, TRUE, FALSE, FALSE, FALSE>>,
     <<"SAMPLER_1D_SHADOW", 1, FALSE, TRUE, FALSE, FALSE>>,
     <<"SAMPLER_1D_ARRAY_SHADOW", 1, TRUE, TRUE, FALSE, FALSE>>,
     <<"SAMPLER_2D", 2, FALSE, FALSE, FALSE, FALSE>>,
     <<"SAMPLER_2D_ARRAY", 2, TRUE, FALSE, FALSE, FALSE>>,
     <<"SAMPLER_2D_SHADOW", 2, FALSE, TRUE, FALSE, FALSE>>,
     <<"SAMPLER_2D_MULTISAMPLE", 2, FALSE, FALSE, TRUE, FALSE>>,
     <<"SAMPLER_2D_RECT", 2, FALSE, FALSE, FALSE, TRUE>>,
     <<"SAMPLER_2D_ARRAY_SHADOW", 2, TRUE, TRUE, FALSE, FALSE>>,
     <<"SAMPLER_2D_MULTISAMPLE_ARRAY", 2, TRUE, FALSE, TRUE, FALSE>>,
     <<"SAMPLER_2D_RECT_SHADOW", 2, FALSE, TRUE, FALSE, TRUE>>,
     <<"SAMPLER_3D", 3, FALSE, FALSE, FALSE, FALSE>>,
     <<"SAMPLER_CUBE", 0, FALSE, FALSE, FALSE, FALSE>>,
     <<"SAMPLER_CUBE_SHADOW", 0, FALSE, TRUE, FALSE, FALSE>>}

\* the sampler description that the words of a float sampler code stand for
SamplerShape(e) ==
    LET array == IF e[3] THEN "Array" ELSE "NoArray"
        shadow == IF e[4] THEN "Shadow" ELSE "NoShadow"
        multisample == IF e[5] THEN "MultiSample" ELSE "NoMultiSample"
        rect == IF e[6] THEN "Rect" ELSE "NoRect"
    IN  CASE e[2] = 1 -> <<"Sampler1D", array, shadow>>
          [] e[2] = 2 -> <<"Sampler2D", array, shadow, multisample, rect>>
          [] e[2] = 3 -> <<"Sampler3D">>
          [] e[2] = 0 -> <<"SamplerCube", shadow>>

\* every code that the claim lists
ClaimedCodes ==
    {ScalarCode(b) : b \in BaseTypes}
    \cup {VectorCode(b, n) : b \in BaseTypes, n \in 2..4}
    \cup {MatrixCode(r, c) : r \in 2..4, c \in 2..4}
    \cup {e[1] : e \in FloatSamplerCodes}

(* C18: StorageType::new is total over the driver's type codes: a scalar   *)
(* or n-vector code of float, int, unsigned int or bool gives Var of that  *)
(* base type with Single or Vector(n); FLOAT_MATr and FLOAT_MATrxc give    *)
(* Var(F32, Matrix(ColumnMajor, r, c)); a listed float sampler code gives  *)
(* Sampler of base F32 with the dimensionality and the flags of its name;  *)
(* every other code gives Unknown.                                         *)
C18_TypeTable ==
    StorageMapped =>
        /\ ret.tag \in {"Var", "Sampler", "Unknown"}
        /\ \A b \in BaseTypes :
            /\ op.storage = ScalarCode(b) =>
                ret = [tag |-> "Var", base |-> b, shape |-> <<"Single">>]
            /\ \A n \in 2..4 :
                op.storage = VectorCode(b, n) =>
                    ret = [tag |-> "Var", base |-> b,
                           shape |-> <<"Vector", n>>]
        /\ \A r \in 2..4, c \in 2..4 :
            op.storage = MatrixCode(r, c) =>
                ret = [tag |-> "Var", base |-> "BaseF32",
                       shape |-> <<"Matrix", "ColumnMajor", r, c>>]
        /\ \A e \in FloatSamplerCodes :
            op.storage = e[1] =>
                ret = [tag |-> "Sampler", base |-> "BaseF32",
                       shape |-> SamplerShape(e)]
        /\ op.storage \notin ClaimedCodes => ret = [tag |-> "Unknown"]

\* a matrix code whose two dimensions differ
C18_Witness ==
    /\ StorageMapped
    /\ op.storage = "FLOAT_MAT4x3"
    /\ ret.shape = <<"Matrix", "ColumnMajor", 4, 3>>

\* an integer sampler and a double type are Unknown
C18_WitnessIntSampler ==
    StorageMapped /\ op.storage = "INT_SAMPLER_2D" /\ ret.tag = "Unknown"

C18_WitnessDouble ==
    StorageMapped /\ op.storage = "DOUBLE_VEC3" /\ ret.tag = "Unknown"

\* a float sampler with two flags
C18_WitnessSampler ==
    /\ StorageMapped
    /\ op.storage = "SAMPLER_2D_RECT_SHADOW"
    /\ ret = [tag |-> "Sampler", base |-> "BaseF32",
              shape |-> <<"Sampler2D", "NoArray", "Shadow", "NoMultiSample",
                          "Rect">>]

\* a vector of a base type other than float
C18_WitnessVector ==
    /\ StorageMapped
    /\ op.storage = "UNSIGNED_INT_VEC3"
    /\ ret = [tag |-> "Var", base |-> "BaseU32", shape |-> <<"Vector", 3>>]

---------------------------------------------------------------------------
(* The vocabulary of the claim about the reused name buffer. *)

\* the table's entries are asked for with one buffer size, the answer to the
\* maximum-length query; the location asked for after each entry is that of
\* the entry's own name; get and locate name the two driver calls
OneBufferWalk(table, max_query, get, locate) ==
    LET gets == CallsTo(get)
        locs == CallsTo(locate)
    IN  /\ Len(ProgramQueries(max_query)) = 1
        /\ Len(locs) = Len(gets)
        /\ \A k \in 1..Len(gets) :
            LET e == table[gets[k].arg[2] + 1] IN
            /\ gets[k].arg[3] = ProgramQueries(max_query)[1].out[1]
            /\ gets[k].out[1] = Len(e.name)
            /\ locs[k].arg[2] = e.name
            /\ locs[k].out[1] = e.location

\* the descriptor has the full name and the location of a driver entry that
\* was asked for
NamesDriverEntry(d, table, get) ==
    \E k \in 1..Len(CallsTo(get)) :
        LET e == table[CallsTo(get)[k].arg[2] + 1] IN
        d.name = e.name /\ d.location = e.location

(* C19: query_attributes and query_parameters ask for every name with the  *)
(* one buffer size that the driver's maximum-length query gave, and every  *)
(* returned descriptor has exactly the driver's name of its index, with no *)
(* characters of an earlier, longer name, and the location the driver has  *)
(* for that name.                                                          *)
C19_NameBufferReuse ==
    Linked =>
        /\ OneBufferWalk(gl.program.attribs, "ACTIVE_ATTRIBUTE_MAX_LENGTH",
                         "GetActiveAttrib", "GetAttribLocation")
        /\ OneBufferWalk(gl.program.uniforms, "ACTIVE_UNIFORM_MAX_LENGTH",
                         "GetActiveUniform", "GetUniformLocation")
        /\ Len(CallsTo("GetActiveAttrib")) = Len(gl.program.attribs)
        /\ \A i \in 1..Len(ProgramInfo.attributes) :
            /\ ProgramInfo.attributes[i].name = gl.program.attribs[i].name
            /\ ProgramInfo.attributes[i].location
                    = gl.program.attribs[i].location
        /\ \A i \in 1..Len(ProgramInfo.uniforms) :
            NamesDriverEntry(ProgramInfo.uniforms[i], gl.program.uniforms,
                             "GetActiveUniform")
        /\ \A i \in 1..Len(ProgramInfo.textures) :
            NamesDriverEntry(ProgramInfo.textures[i], gl.program.uniforms,
                             "GetActiveUniform")

\* the name of the second attribute is shorter than that of the first, and
\* so is the name of the second uniform, a sampler
C19_Witness ==
    /\ Linked
    /\ Len(ProgramInfo.attributes) = 2
    /\ ProgramInfo.attributes[1].name = <<"a", "a", "0">>
    /\ ProgramInfo.attributes[2].name = <<"a", "1">>
    /\ ProgramInfo.attributes[2].location = 12
    /\ Len(ProgramInfo.uniforms) = 1
    /\ ProgramInfo.uniforms[1].name = <<"u", "u", "0">>
    /\ Len(ProgramInfo.textures) = 1
    /\ ProgramInfo.textures[1].name = <<"u", "1">>
    /\ ProgramInfo.textures[1].location = 22

---------------------------------------------------------------------------
(* The vocabulary of the claim about a refused shader bundle. *)

Refused == ShaderCreated /\ ret[1] = Err("NoSupportedShaderProvided")

\* the shader objects the call created in the driver and did not delete
LiveShaderObjects ==
    {CallsTo("CreateShader")[k].out[1] : k \in 1..Len(CallsTo("CreateShader"))}
    \ {CallsTo("DeleteShader")[k].arg[1] :
            k \in 1..Len(CallsTo("DeleteShader"))}

(* C20: when create_shader fails with NoSupportedShaderProvided it has     *)
(* issued no driver call, and so has created no shader object: the         *)
(* driver's set of live shader objects is as before the call.              *)
C20_NoCallOnRefusal ==
    Refused => (glCalls = <<>> /\ LiveShaderObjects = {})

\* what the code does: the shader object is created before the variant is
\* selected, and a refusal returns with that one call made and the object
\* still alive
C20_ObjectLeftOnRefusal ==
    Refused =>
        /\ Len(glCalls) = 1
        /\ glCalls[1].fn = "CreateShader"
        /\ LiveShaderObjects = {glCalls[1].out[1]}

\* a bundle with only a 1.50 source was refused under GLSL 1.30 after a
\* fragment shader object had been created
C20_Witness ==
    /\ Refused
    /\ op.data = [glsl_120 |-> None, glsl_130 |-> None, glsl_140 |-> None,
                  glsl_150 |-> Some("source 1.50")]
    /\ op.lang = Version(1, 30, None, <<>>)
    /\ glCalls[1].fn = "CreateShader"
    /\ glCalls[1].arg = <<"FRAGMENT_SHADER">>
    /\ LiveShaderObjects # {}

---------------------------------------------------------------------------
(* The vocabulary of the claim about the byte offset of an indexed draw. *)

DrawnIndexed == Did("process") /\ op.request[1] = "DrawIndexed"

\* the offset argument of the DrawElements call
DrawOffset == CallsTo("DrawElements")[1].arg[4]

(* C21: for every 16-bit start index, processing DrawIndexed(start, count) *)
(* passes to DrawElements the byte offset start * 2, the multiplication    *)
(* not wrapping around.                                                    *)
C21_OffsetIsTwiceStart ==
    DrawnIndexed =>
        /\ Len(CallsTo("DrawElements")) = 1
        /\ DrawOffset = op.request[2] * 2

\* what the code does: the product is a u16, so the offset is start * 2
\* below half the range and start * 2 - 65536 from there on
C21_OffsetWrapsInU16 ==
    DrawnIndexed =>
        /\ Len(CallsTo("DrawElements")) = 1
        /\ DrawOffset = IF op.request[2] < U16Modulus \div 2
                        THEN op.request[2] * 2
                        ELSE op.request[2] * 2 - U16Modulus

\* the draw from the first index of the upper half starts at offset 0
C21_Witness ==
    /\ DrawnIndexed
    /\ op.request[2] = U16Modulus \div 2
    /\ DrawOffset = 0

\* below the middle the offset is exact
C21_WitnessExact ==
    /\ DrawnIndexed
    /\ op.request[2] = U16Modulus \div 2 - 1
    /\ DrawOffset = U16Modulus - 2

---------------------------------------------------------------------------
(* The vocabulary of the claim about the write masks across a clear. *)

Cleared == Did("process") /\ op.request[1] = "Clear"

\* the depth mask that the depth state given last asks for
EstablishedDepthMask == IF gl.depth_write THEN "TRUE" ELSE "FALSE"

\* no request sets the stencil write mask (bind_stencil leaves it alone), so
\* the established one is that of the fresh context: every bit writable
EstablishedStencilMask == IF "stencil_mask" \in DOMAIN gl THEN -1 ELSE 0

(* C22: processing a Clear request leaves the driver's depth write mask    *)
(* and stencil write mask as the last state-setting request established    *)
(* them: after SetDepthStencilState with write = false and then a Clear    *)
(* with a depth value, depth writes are still disabled.                    *)
C22_ClearKeepsMasks ==
    Cleared =>
        /\ gl.depth_mask = EstablishedDepthMask
        /\ gl.stencil_mask = EstablishedStencilMask

\* what the code does: a Clear with a depth value leaves depth writes
\* enabled, whatever the depth state asked for, and a Clear with a stencil
\* value leaves every stencil bit writable
C22_ClearEnablesWrites ==
    Cleared =>
        /\ op.request[2].depth # None => gl.depth_mask = "TRUE"
        /\ op.request[2].stencil # None => gl.stencil_mask = -1
        /\ Len(CallsTo("DepthMask")) =
                (IF op.request[2].depth # None THEN 1 ELSE 0)

\* a depth state with write = false was set, then a Clear with a depth
\* value was processed, and depth writes are enabled
C22_Witness ==
    /\ Cleared
    /\ op.request[2].depth # None
    /\ ~gl.depth_write
    /\ gl.depth_mask = "TRUE"

==========================================================================
